---- MODULE Spec2Model ----
(***************************************************************************)
(* A model of the FastSearch service core: the in-memory MFT cache        *)
(* (mft_cache.rs), its persistence (cache_persistence.rs), the USN        *)
(* journal monitor (usn_journal.rs) and the query path (search_engine.rs).*)
(***************************************************************************)
EXTENDS Integers, Sequences, FiniteSets, TLC

VARIABLES
    fs,               \* the volume: the set of MFT record numbers in use
    journal,          \* the USN journal of the volume: [ok, id, next]
    mft_read_usn,     \* the journal's NextUsn when the MFT was last read (history)
    unwatched,        \* a change was made with no running monitor or no journal, and
                      \* the MFT has not been read since (history)
    files,            \* MftCache.files: id -> FileEntry
    extension_index,  \* MftCache.extension_index: extension -> ids
    name_index,       \* MftCache.name_index: lower-cased name -> ids
    path_index,       \* MftCache.path_index: path -> id
    files_processed,  \* MftCache.files_processed
    memory_usage,     \* MftCache.memory_usage
    rpc,              \* thread -> its position inside rebuild()/save_cache()
    mft,              \* thread -> the MFT snapshot read by its rebuild_internal
    oom,              \* thread -> a memory sample of its build was over the limit (history)
    qpc,              \* position of a fast_search call
    args,             \* the arguments of the last fast_search call
    results,          \* the ids of the entries that call has pushed to results
    call,             \* the arguments of the last tools/call fast_search at the bridge
    reply,            \* what the bridge answered to it: "none", "error" or "result"
    sent,             \* the SearchRequests the bridge has written to the pipe
    input,            \* the arguments a function is called with
    engine,           \* SearchEngine: the registry of caches and the threads in get_or_create_cache
    autosave,         \* the auto-save threads of the cache, its shutdown_flag and save_thread_handle
    monitoring,       \* MftCache.usn_monitor and volume_handle, and the threads in start/stop_monitoring
    ipc,              \* the bridge's IpcClient, its pipe, and the service end of the pipe
    service,          \* the service's request loop: lines read, responses written
    stdio,            \* the bridge's stdio loop: lines read, lines written
    ins,              \* inserting thread -> its position and its view of the table
    output,           \* what it returned
    running,          \* UsnJournalMonitor.running
    thread_handle,    \* UsnJournalMonitor.thread_handle (0 = None)
    mpc,              \* position of the thread that calls start()/stop()
    wpc,              \* monitor thread -> its position in the loop
    last_usn,         \* monitor thread -> its local last_usn
    journal_data,     \* monitor thread -> the USN_JOURNAL_DATA it queried last
    dir,              \* the cache directory: file name -> content
    clock,            \* the last SystemTime::now() read, in whole seconds
    stamp,            \* thread -> the timestamp its save_cache took
    config,           \* MftCacheConfig
    opc,              \* position of MftCache::with_config (open)
    loaded,           \* what load_cache returned to the last open
    saved,            \* the version written by the last save_cache that returned Ok (history)
    crashes           \* how often the service process has died so far

storeVars == <<files, extension_index, name_index, path_index, files_processed, memory_usage>>
envVars == <<fs, journal, mft_read_usn, unwatched>>
scanVars == <<mft, oom>>
buildVars == <<rpc, mft, oom>>
\* The parts of the service and of the bridge outside the cache of one drive.
sysVars == <<engine, autosave, monitoring, ipc, service, stdio>>
queryVars == <<qpc, args, results, call, reply, sent, input, sysVars, ins, output>>
monitorVars == <<running, thread_handle, mpc, wpc, last_usn, journal_data>>
persistVars == <<dir, clock, stamp, config, opc, loaded, saved, crashes>>
vars == <<fs, journal, mft_read_usn, unwatched, files, extension_index, name_index, path_index, files_processed,
          memory_usage, rpc, mft, oom, qpc, args, results, call, reply, sent, input, sysVars, ins, output, running, thread_handle, mpc, wpc, last_usn,
          journal_data, dir, clock, stamp, config, opc, loaded, saved, crashes>>

-----------------------------------------------------------------------------
(* Bounds of the model. *)

\* MFT record numbers 1..MaxFiles; record 1 is never deleted.
MaxFiles == 2
\* The journal's NextUsn stays at or below MaxUsn.
MaxUsn == 2
\* start() spawns at most MaxStarts monitor threads in one run.
MaxStarts == 2
\* A stdio loop reads at most MaxLines lines.
MaxLines == 3
\* The wall clock stays at or below MaxTime seconds.
MaxTime == 1
\* Journal ids 1..MaxJournalId: the journal is re-created at most MaxJournalId - 1 times.
MaxJournalId == 2
\* The service process dies at most MaxCrashes times.
MaxCrashes == 1
MaxResults == 2
MaxRequests == 2
\* The threads that insert into one store at the same time.
MaxThreads == 4
\* The threads that serve queries at the same time.
MaxWorkers == 2

Ids == 1..MaxFiles
FsStates == {X \in SUBSET Ids : 1 \in X}
\* Thread 0 is the thread of the API caller; 1..MaxStarts are monitor threads.
Monitors == 1..MaxStarts
Threads == 0..MaxStarts
None == 0

-----------------------------------------------------------------------------
(* The file entries of the volume. *)

\* On a volume with a case-sensitive directory tree the directories docs and
\* DOCS exist side by side; CaseTwin is the file DOCS\b.txt next to docs\B.TXT.
CaseTwin == MaxFiles + 1
NameOf(i) ==
    IF i = CaseTwin THEN "b.txt"
    ELSE CASE i = 1 -> "a.txt" [] i = 2 -> "B.TXT" [] i = 3 -> "README" [] OTHER -> "c.log"
PathOf(i) ==
    IF i = CaseTwin THEN "DOCS\\b.txt"
    ELSE CASE i = 1 -> "a.txt" [] i = 2 -> "docs\\B.TXT" [] i = 3 -> "README" [] OTHER -> "docs\\c.log"
\* The top-level directory a file is found under ("" for the root itself).
DirOf(i) ==
    IF i = CaseTwin THEN "DOCS"
    ELSE CASE i = 1 -> "" [] i = 2 -> "docs" [] i = 3 -> "" [] OTHER -> "docs"

\* String::to_lowercase on the names of the volume.
to_lowercase(s) ==
    CASE s = "B.TXT" -> "b.txt" [] s = "TXT" -> "txt" [] s = "README" -> "readme"
      [] s = "docs\\B.TXT" -> "docs\\b.txt" [] s = "DOCS\\b.txt" -> "docs\\b.txt" [] OTHER -> s

\* Path::new(name).extension(): the part after the last dot, if any.
extension(name) ==
    CASE name = "a.txt" -> "txt" [] name = "B.TXT" -> "TXT" [] name = "b.txt" -> "txt"
      [] name = "c.log" -> "log" [] OTHER -> ""

FileEntry(i) == [id |-> i, name |-> NameOf(i), path |-> PathOf(i), size |-> i, is_directory |-> FALSE]

EmptyMap == <<>>

\* The four maps a build over the MFT snapshot X hands to the cache.
FilesOf(X) == [i \in X |-> FileEntry(i)]
ExtKey(i) == to_lowercase(extension(NameOf(i)))
ExtensionIndexOf(X) ==
    [e \in {ExtKey(i) : i \in {j \in X : ExtKey(j) # ""}} |-> {i \in X : ExtKey(i) = e}]
NameIndexOf(X) ==
    [n \in {to_lowercase(NameOf(i)) : i \in X} |-> {i \in X : to_lowercase(NameOf(i)) = n}]
PathKey(i) == to_lowercase(PathOf(i))
PathIndexOf(X) ==
    [p \in {PathKey(i) : i \in X} |-> CHOOSE i \in X : PathKey(i) = p]

\* HashMap::extend: the keys of m2 replace those of m1.
extend(m1, m2) ==
    [k \in DOMAIN m1 \cup DOMAIN m2 |-> IF k \in DOMAIN m2 THEN m2[k] ELSE m1[k]]
\* The orders in which the results of the directories S can arrive on the channel.
ArrivalOrders(S) ==
    {o \in [1..Cardinality(S) -> S] : \A a, b \in DOMAIN o : a # b => o[a] # o[b]}
\* The merge loop of rebuild_parallel over the path indexes of the directories,
\* taken in the order o.
RECURSIVE MergePathIndex(_, _, _)
MergePathIndex(X, o, n) ==
    IF n = 0 THEN EmptyMap
    ELSE extend(MergePathIndex(X, o, n - 1), PathIndexOf({i \in X : DirOf(i) = o[n]}))
MergedPathIndexes(X) ==
    LET S == {DirOf(i) : i \in X}
    IN  {MergePathIndex(X, o, Cardinality(S)) : o \in ArrivalOrders(S)}

-----------------------------------------------------------------------------
(* Locks.  Each map has its own RwLock.  A writer takes a lock, changes    *)
(* the map and drops the guard within one statement, so a write is one     *)
(* step; a reader keeps its guards across steps.                           *)

SavePcsHoldingGuards == {"save_write"}
SaveHoldsGuards == \E w \in Threads : rpc[w] \in SavePcsHoldingGuards
FilesReadHeld == qpc \in {"gotFiles", "gotBoth"} \/ SaveHoldsGuards
PathReadHeld == qpc = "gotBoth" \/ SaveHoldsGuards
IndexReadHeld == SaveHoldsGuards

-----------------------------------------------------------------------------
(* The initial state: with_config has built the cache from the MFT.        *)

InitStore(X) ==
    /\ files = FilesOf(X)
    /\ extension_index = ExtensionIndexOf(X)
    /\ name_index = NameIndexOf(X)
    /\ path_index = PathIndexOf(X)
    /\ files_processed = Cardinality(X)
    /\ memory_usage = 0

NoJournalData == [UsnJournalID |-> 0, NextUsn |-> 0]

\* const DEFAULT_MAX_FILES_BEFORE_MEMCHECK: usize = 100_000
DEFAULT_MAX_FILES_BEFORE_MEMCHECK == 100000
\* const TARGET_MEMORY_USAGE: f32 = 0.8, in percent
TARGET_MEMORY_USAGE == 80
\* MftCacheConfig::default(): max_cache_versions: 3
DefaultMaxCacheVersions == 3

\* MftCacheConfig::default()
DefaultConfig ==
    [max_files_before_memcheck |-> DEFAULT_MAX_FILES_BEFORE_MEMCHECK,
     max_memory_usage |-> TARGET_MEMORY_USAGE,
     persistence_enabled |-> TRUE,
     max_cache_versions |-> DefaultMaxCacheVersions]

\* Ok(None) of load_cache; also "no save has returned Ok yet".
NoCache == [found |-> FALSE, timestamp |-> 0, files |-> EmptyMap]

\* A JSON value that is missing from the arguments.
Absent == [type |-> "absent"]
\* The bridge has not been called yet.
NoCall == [pattern |-> Absent, max_results |-> Absent, min_size |-> Absent, modified_after |-> Absent]

\* args["max_results"].as_u64().unwrap_or(1000)
DefaultMaxResults == 1000
\* fast_search called without arguments.
DefaultArgs ==
    [pattern |-> "*", path |-> "", max_results |-> DefaultMaxResults,
     extensions |-> {}, doc_type |-> {}]

\* The threads of the insert test, and a thread that is not spawned yet.
Inserters == 1..MaxThreads
NotSpawned == [pc |-> "unborn", files |-> EmptyMap]

\* The drives a query can name, and the threads that serve queries.
Drives == {"C", "D"}
Workers == 1..MaxWorkers
NoResult == [kind |-> "none"]
\* SearchEngine::new: an empty registry; no cache was built yet and rayon's
\* global thread pool does not exist.
\* Auto-save threads 1..MaxStarts; no start_auto_save has been called.
Savers == 1..MaxStarts
InitAutoSave ==
    [shutdown_flag |-> FALSE, save_thread_handle |-> {}, started |-> 0, closed |-> FALSE,
     pc |-> [t \in Savers |-> "unborn"]]

\* The threads that call start_monitoring/stop_monitoring on the one cache, and
\* the volume handles CreateFileW hands out; a failed CreateFileW returns
\* INVALID_HANDLE_VALUE, which is not the null pointer.
MonitorCallers == 1..2
Handles == 1..MaxStarts
NULL == 0
INVALID_HANDLE_VALUE == -1
NoMonitor == [thread |-> "none", volume_handle |-> NULL]
IdleCaller == [pc |-> "idle", n |-> 0, handle |-> NULL, result |-> "none"]
InitMonitoring ==
    [usn_monitor |-> {}, volume_handle |-> {}, starts |-> 0,
     handles |-> [h \in Handles |-> "free"],
     monitors |-> [m \in Handles |-> NoMonitor],
     call |-> [c \in MonitorCallers |-> IdleCaller]]
\* No IpcClient exists yet; nothing is in the pipe.
NoFrame == [part |-> "none", id |-> 0]
NoReply == [kind |-> "none", id |-> 0]
InitIpc ==
    [impl |-> "none", client |-> FALSE, pc |-> "idle", req |-> 0, sent |-> 0,
     to_service |-> <<>>, to_client |-> <<>>, half |-> FALSE, got |-> NoFrame,
     result |-> NoReply, broken |-> FALSE]
\* run_mcp_server has not started.
InitService == [pc |-> "start", server |-> "none", lines |-> <<>>, out |-> <<>>]
\* No stdio loop of the bridge runs yet.
InitStdio == [pc |-> "start", loop |-> "none", lines |-> <<>>, out |-> <<>>, end |-> "none"]

InitEngine ==
    [mft_cache |-> EmptyMap, caches |-> <<>>, rayon |-> FALSE,
     qry |-> [t \in Workers |-> [pc |-> "idle", drive |-> "C", result |-> NoResult]]]

\* The state of every part of the program after construction.
InitProgram ==
    /\ engine = InitEngine
    /\ autosave = InitAutoSave
    /\ monitoring = InitMonitoring
    /\ ipc = InitIpc
    /\ service = InitService
    /\ stdio = InitStdio
    /\ ins = [t \in Inserters |-> NotSpawned]
    /\ rpc = [w \in Threads |-> "none"]
    /\ mft = [w \in Threads |-> {}]
    /\ oom = [w \in Threads |-> FALSE]
    /\ qpc = "idle"
    /\ args = DefaultArgs
    /\ results = <<>>
    /\ call = NoCall
    /\ reply = "none"
    /\ sent = <<>>
    /\ running = FALSE
    /\ thread_handle = None
    /\ mpc = "idle"
    /\ wpc = [t \in Monitors |-> "unborn"]
    /\ last_usn = [t \in Monitors |-> 0]
    /\ journal_data = [t \in Monitors |-> NoJournalData]
    /\ dir = EmptyMap
    /\ clock = 0
    /\ stamp = [w \in Threads |-> 0]
    /\ loaded = NoCache
    /\ saved = NoCache
    /\ crashes = 0

\* No function has been called.
NoInput == [fn |-> "none"]
NoOutput == [fn |-> "none"]

InitRest ==
    /\ input = NoInput
    /\ output = NoOutput
    /\ InitProgram

\* The two history variables are kept up to date unless a specification starts
\* with mft_read_usn = -1, a position no journal has.
Recording == mft_read_usn # -1

Init ==
    /\ config = [DefaultConfig EXCEPT !.persistence_enabled = FALSE]
    /\ opc = "opened"
    /\ fs \in FsStates
    /\ journal = [ok |-> TRUE, id |-> 1, next |-> 1]
    /\ mft_read_usn = journal.next
    /\ unwatched = FALSE
    /\ InitStore(fs)
    /\ InitRest

-----------------------------------------------------------------------------
(* The volume and its journal.                                             *)

\* A file is created or deleted; an active journal records the change.
FsChange ==
    /\ \E i \in Ids \ {1} : fs' = IF i \in fs THEN fs \ {i} ELSE fs \cup {i}
    /\ journal.ok => journal.next < MaxUsn
    /\ journal' = IF journal.ok THEN [journal EXCEPT !.next = @ + 1] ELSE journal
    /\ unwatched' = (Recording /\ (unwatched \/ ~running \/ ~journal.ok))
    /\ UNCHANGED <<mft_read_usn, storeVars, buildVars, queryVars, monitorVars, persistVars>>

\* The journal of the volume is deleted: FSCTL_QUERY_USN_JOURNAL fails from now on.
JournalDelete ==
    /\ journal.ok
    /\ journal.id < MaxJournalId
    /\ journal' = [journal EXCEPT !.ok = FALSE]
    /\ UNCHANGED <<fs, mft_read_usn, unwatched, storeVars, buildVars, queryVars, monitorVars,
                   persistVars>>

\* A new journal is created: a new journal id, and USNs start again from 0.
JournalCreate ==
    /\ ~journal.ok
    /\ journal' = [ok |-> TRUE, id |-> journal.id + 1, next |-> 0]
    /\ UNCHANGED <<fs, mft_read_usn, unwatched, storeVars, buildVars, queryVars, monitorVars,
                   persistVars>>

-----------------------------------------------------------------------------
(* MftCache::rebuild, thread w: clear(), rebuild_internal(), save.         *)

\* clear(): self.files.write().clear()
ClearFiles(w) ==
    /\ rpc[w] = "clear_files"
    /\ ~FilesReadHeld
    /\ files' = EmptyMap
    /\ rpc' = [rpc EXCEPT ![w] = "clear_ext"]
    /\ oom' = [oom EXCEPT ![w] = FALSE]
    /\ UNCHANGED <<extension_index, name_index, path_index, files_processed, memory_usage,
                   mft, envVars, queryVars, monitorVars, persistVars>>

\* clear(): self.extension_index.write().clear()
ClearExt(w) ==
    /\ rpc[w] = "clear_ext"
    /\ ~IndexReadHeld
    /\ extension_index' = EmptyMap
    /\ rpc' = [rpc EXCEPT ![w] = "clear_name"]
    /\ UNCHANGED <<files, name_index, path_index, files_processed, memory_usage,
                   scanVars, envVars, queryVars, monitorVars, persistVars>>

\* A clear() that leaves the name index as it is.
ClearNameSkipped(w) ==
    /\ rpc[w] = "clear_name"
    /\ rpc' = [rpc EXCEPT ![w] = "clear_path"]
    /\ UNCHANGED <<storeVars, scanVars, envVars, queryVars, monitorVars, persistVars>>

\* clear(): self.name_index.write().clear()
ClearName(w) ==
    /\ rpc[w] = "clear_name"
    /\ ~IndexReadHeld
    /\ name_index' = EmptyMap
    /\ rpc' = [rpc EXCEPT ![w] = "clear_path"]
    /\ UNCHANGED <<files, extension_index, path_index, files_processed, memory_usage,
                   scanVars, envVars, queryVars, monitorVars, persistVars>>

\* clear(): self.path_index.write().clear(), then the counters are reset.
ClearPath(w) ==
    /\ rpc[w] = "clear_path"
    /\ ~PathReadHeld
    /\ path_index' = EmptyMap
    /\ memory_usage' = 0
    /\ files_processed' = 0
    /\ rpc' = [rpc EXCEPT ![w] = "read_mft"]
    /\ UNCHANGED <<files, extension_index, name_index,
                   scanVars, envVars, queryVars, monitorVars, persistVars>>

\* The memory samples a build can meet, in percent of the system's memory: at
\* the configured maximum, above it, and above 1.1 times it.
MemSamples(cfg) ==
    {cfg.max_memory_usage, cfg.max_memory_usage + 1, (cfg.max_memory_usage * 11) \div 10 + 1}

\* The samples met while n entries are processed from counter c on.  A sample
\* is only taken at a check; a traversal too short to reach one check takes none,
\* and the samples handed to it are not looked at.
SampleRuns(n, c, cfg) ==
    IF c + 2 * n < cfg.max_files_before_memcheck
      THEN {[j \in 1..n |-> cfg.max_memory_usage]}
      ELSE [1..n -> MemSamples(cfg)]

\* memory_usage_percent > (max_memory_usage * 100.0)
MemoryHigh(percent, cfg) == percent > cfg.max_memory_usage

\* memory_usage_percent > (max_memory_usage * 1.1 * 100.0)
MemoryOverLimit(percent, cfg) == percent * 10 > cfg.max_memory_usage * 11

\* The loop of process_directory over the entries from the j-th on, with the
\* counter at c: files_processed.fetch_add(1); every max_files_before_memcheck-th
\* entry calls check_memory_limits, which adds 1 again, samples the memory and,
\* over the limit, calls clear() (counters to 0) and returns Ok.  The result is
\* the counter at the end and whether clear() was called.
RECURSIVE process_directory(_, _, _, _)
process_directory(samples, j, c, cfg) ==
    IF j > Len(samples) THEN [files_processed |-> c, cleared |-> FALSE]
    ELSE LET checked == (c + 1) % cfg.max_files_before_memcheck = 0
             over == /\ checked
                     /\ MemoryHigh(samples[j], cfg)
                     /\ MemoryOverLimit(samples[j], cfg)
             after == IF ~checked THEN c + 1 ELSE IF over THEN 0 ELSE c + 2
             rest == process_directory(samples, j + 1, after, cfg)
         IN  [files_processed |-> rest.files_processed, cleared |-> over \/ rest.cleared]

\* rebuild_internal(): read_mft and the traversal into the thread's own maps.
ReadMft(w) ==
    /\ rpc[w] = "read_mft"
    /\ mft' = [mft EXCEPT ![w] = fs]
    /\ \E samples \in SampleRuns(Cardinality(fs), files_processed, config) :
          LET done == process_directory(samples, 1, files_processed, config) IN
          /\ files_processed' = done.files_processed
          /\ oom' = [oom EXCEPT ![w] = done.cleared]
          /\ IF done.cleared
               THEN /\ ~FilesReadHeld /\ ~IndexReadHeld /\ ~PathReadHeld
                    /\ files' = EmptyMap
                    /\ extension_index' = EmptyMap
                    /\ name_index' = EmptyMap
                    /\ path_index' = EmptyMap
                    /\ memory_usage' = 0
               ELSE UNCHANGED <<files, extension_index, name_index, path_index, memory_usage>>
    /\ rpc' = [rpc EXCEPT ![w] = "pub_files"]
    /\ mft_read_usn' = IF Recording THEN journal.next ELSE mft_read_usn
    /\ unwatched' = FALSE
    /\ UNCHANGED <<fs, journal, queryVars, monitorVars, persistVars>>

\* *self.files.write() = files
PubFiles(w) ==
    /\ rpc[w] = "pub_files"
    /\ ~FilesReadHeld
    /\ files' = FilesOf(mft[w])
    /\ rpc' = [rpc EXCEPT ![w] = "pub_ext"]
    /\ UNCHANGED <<extension_index, name_index, path_index, files_processed, memory_usage,
                   scanVars, envVars, queryVars, monitorVars, persistVars>>

\* *self.extension_index.write() = extension_index
PubExt(w) ==
    /\ rpc[w] = "pub_ext"
    /\ ~IndexReadHeld
    /\ extension_index' = ExtensionIndexOf(mft[w])
    /\ rpc' = [rpc EXCEPT ![w] = "pub_name"]
    /\ UNCHANGED <<files, name_index, path_index, files_processed, memory_usage,
                   scanVars, envVars, queryVars, monitorVars, persistVars>>

\* *self.name_index.write() = name_index
PubName(w) ==
    /\ rpc[w] = "pub_name"
    /\ ~IndexReadHeld
    /\ name_index' = NameIndexOf(mft[w])
    /\ rpc' = [rpc EXCEPT ![w] = "pub_path"]
    /\ UNCHANGED <<files, extension_index, path_index, files_processed, memory_usage,
                   scanVars, envVars, queryVars, monitorVars, persistVars>>

\* *self.path_index.write() = path_index, and the thread's own maps are dropped;
\* then rebuild() saves if persistence is on.
PubPath(w) ==
    /\ rpc[w] = "pub_path"
    /\ ~PathReadHeld
    /\ path_index' \in MergedPathIndexes(mft[w])
    /\ rpc' = [rpc EXCEPT ![w] = IF config.persistence_enabled THEN "save_begin" ELSE "done"]
    /\ mft' = [mft EXCEPT ![w] = {}]
    /\ UNCHANGED <<files, extension_index, name_index, files_processed, memory_usage,
                   oom, envVars, queryVars, monitorVars, persistVars>>

RebuildStep(w) ==
    \/ ClearFiles(w) \/ ClearExt(w) \/ ClearName(w) \/ ClearPath(w)
    \/ ReadMft(w)
    \/ PubFiles(w) \/ PubExt(w) \/ PubName(w) \/ PubPath(w)

\* The API caller enters rebuild().
CallRebuild ==
    /\ opc = "opened"
    /\ rpc[0] = "none"
    /\ rpc' = [rpc EXCEPT ![0] = "clear_files"]
    /\ UNCHANGED <<storeVars, scanVars, envVars, queryVars, monitorVars, persistVars>>

\* rebuild() or save_to_disk() returns to the API caller.
RebuildReturn ==
    /\ opc = "opened"
    /\ rpc[0] = "done"
    /\ rpc' = [rpc EXCEPT ![0] = "none"]
    /\ UNCHANGED <<storeVars, scanVars, envVars, queryVars, monitorVars, persistVars>>

-----------------------------------------------------------------------------
(* SearchEngine::fast_search: the two read guards and the scan.            *)

\* EXTENSION_MAP: the extensions of each document type, as character sequences.
EXTENSION_MAP ==
    [
     text |->
       {
        <<"t", "x", "t">>, <<"m", "d">>, <<"m", "a", "r", "k", "d", "o", "w", "n">>,
        <<"r", "t", "f">>, <<"o", "d", "t">>, <<"d", "o", "c">>, <<"d", "o", "c", "x">>,
        <<"p", "d", "f">>, <<"t", "e", "x">>, <<"l", "o", "g">>
       },
     code |->
       {
        <<"r", "s">>, <<"p", "y">>, <<"j", "s">>, <<"t", "s">>, <<"j", "s", "x">>,
        <<"t", "s", "x">>, <<"j", "a", "v", "a">>, <<"c">>, <<"c", "p", "p">>, <<"h">>,
        <<"h", "p", "p">>, <<"c", "s">>, <<"g", "o">>, <<"r", "b">>, <<"p", "h", "p">>,
        <<"s", "w", "i", "f", "t">>, <<"k", "t">>, <<"s", "c", "a", "l", "a">>, <<"m">>,
        <<"m", "m">>, <<"s", "h">>, <<"b", "a", "s", "h">>, <<"p", "s", "1">>, <<"b",
        "a", "t">>, <<"h", "t", "m", "l">>, <<"c", "s", "s">>, <<"s", "c", "s", "s">>,
        <<"s", "a", "s", "s">>, <<"l", "e", "s", "s">>, <<"j", "s", "o", "n">>, <<"y",
        "a", "m", "l">>, <<"t", "o", "m", "l">>, <<"x", "m", "l">>, <<"s", "q", "l">>,
        <<"i", "n", "i">>, <<"c", "f", "g">>, <<"c", "o", "n", "f">>, <<"e", "n", "v">>,
        <<"g", "i", "t", "i", "g", "n", "o", "r", "e">>, <<"d", "o", "c", "k", "e", "r",
        "f", "i", "l", "e">>, <<"m", "a", "k", "e", "f", "i", "l", "e">>, <<"l", "u",
        "a">>, <<"p", "e", "r", "l">>, <<"r">>, <<"s", "q", "l">>, <<"v", "u", "e">>,
        <<"s", "v", "e", "l", "t", "e">>
       },
     image |->
       {
        <<"j", "p", "g">>, <<"j", "p", "e", "g">>, <<"p", "n", "g">>, <<"g", "i", "f">>,
        <<"b", "m", "p">>, <<"w", "e", "b", "p">>, <<"t", "i", "f", "f">>, <<"t", "i",
        "f">>, <<"s", "v", "g">>, <<"i", "c", "o">>, <<"h", "e", "i", "c">>
       },
     spreadsheet |->
       {
        <<"x", "l", "s">>, <<"x", "l", "s", "x">>, <<"x", "l", "s", "m">>, <<"o", "d",
        "s">>, <<"c", "s", "v">>, <<"t", "s", "v">>
       },
     presentation |->
       {
        <<"p", "p", "t">>, <<"p", "p", "t", "x">>, <<"o", "d", "p">>, <<"k", "e", "y">>
       },
     archive |->
       {
        <<"z", "i", "p">>, <<"r", "a", "r">>, <<"7", "z">>, <<"t", "a", "r">>, <<"g",
        "z">>, <<"b", "z", "2">>, <<"x", "z">>, <<"z", "s", "t">>, <<"l", "z", "m",
        "a">>, <<"l", "z", "4">>, <<"l", "z", "h">>, <<"c", "a", "b">>
       },
     audio |->
       {
        <<"m", "p", "3">>, <<"w", "a", "v">>, <<"o", "g", "g">>, <<"f", "l", "a", "c">>,
        <<"a", "a", "c">>, <<"m", "4", "a">>, <<"w", "m", "a">>, <<"a", "i", "f", "f">>,
        <<"a", "i", "f">>, <<"m", "i", "d", "i">>, <<"m", "i", "d">>
       },
     video |->
       {
        <<"m", "p", "4">>, <<"a", "v", "i">>, <<"m", "k", "v">>, <<"m", "o", "v">>,
        <<"w", "m", "v">>, <<"f", "l", "v">>, <<"w", "e", "b", "m">>, <<"m", "4", "v">>,
        <<"m", "p", "e", "g">>, <<"m", "p", "g">>, <<"3", "g", "p">>
       },
     pdf |->
       {
        <<"p", "d", "f">>
       }
    ]

\* parse_document_type: the document type named, in any case, or None.
parse_document_type(s) ==
    IF to_lowercase(s) \in DOMAIN EXTENSION_MAP THEN {to_lowercase(s)} ELSE {}

\* self.doc_type_extensions.get(&doc_type)
doc_type_extensions(doc_type) == EXTENSION_MAP[doc_type]

\* The arguments of a call: the pattern "*" or a name without wildcards, a path
\* filter (lower-cased on entry), and max_results; no extensions, no doc_type.
\* An Option is the empty set (None) or a singleton (Some).
SearchArgs ==
    [pattern : {"*", "readme"}, path : {"", "docs"},
     max_results : (0..MaxResults) \cup {DefaultMaxResults},
     extensions : {{}}, doc_type : {{}}]

\* pattern_to_regex(pattern).is_match(name), for "*" and for a pattern without
\* wildcards and dots: ".*", or ^(?i)pattern$.
is_match(pattern, name) ==
    IF pattern = "*" THEN TRUE ELSE to_lowercase(name) = to_lowercase(pattern)

\* path.to_lowercase().contains(path_filter)
contains(path, path_filter) ==
    \/ path_filter = ""
    \/ path_filter = "docs" /\ to_lowercase(path) \in {"docs\\b.txt", "docs\\c.log"}

\* HashMap::iter visits the entries in an order of its own.
HashMapIter(F) == ArrivalOrders(DOMAIN F)

\* The extension filter of the loop: with Some(exts), an entry with an extension
\* passes when exts holds it, one without passes when exts is empty.
extension_filter(file, extensions) ==
    \A exts \in extensions :
        IF file.extension # {} THEN \A ext \in file.extension : ext \in exts
        ELSE exts = {}

\* The document type filter of the loop: with Some(doc_type), an entry passes when
\* it has an extension and the type's extensions hold it.
doc_type_filter(file, doc_type) ==
    \A dt \in doc_type :
        /\ file.extension # {}
        /\ \A ext \in file.extension : ext \in doc_type_extensions(dt)

\* The loop of fast_search over the entries in the order given, from position k,
\* with the ids pushed so far in acc: an entry that passes the filters is pushed,
\* and after the push the loop breaks when result_count >= max_results.
RECURSIVE scan(_, _, _, _, _)
scan(F, order, k, a, acc) ==
    IF k > Len(order) THEN acc
    ELSE LET file == F[order[k]] IN
         IF a.path # "" /\ ~contains(file.path, a.path) THEN scan(F, order, k + 1, a, acc)
         ELSE IF ~is_match(a.pattern, file.name) THEN scan(F, order, k + 1, a, acc)
         ELSE IF ~extension_filter(file, a.extensions) THEN scan(F, order, k + 1, a, acc)
         ELSE IF ~doc_type_filter(file, a.doc_type) THEN scan(F, order, k + 1, a, acc)
         ELSE LET pushed == Append(acc, file.id) IN
              IF Len(pushed) >= a.max_results THEN pushed
              ELSE scan(F, order, k + 1, a, pushed)

\* let files = mft_cache.get_files()
QueryGetFiles ==
    /\ qpc = "idle"
    /\ args' \in SearchArgs
    /\ results' = <<>>
    /\ qpc' = "gotFiles"
    /\ UNCHANGED <<call, reply, sent, input, sysVars, ins, output, storeVars, buildVars, envVars, monitorVars, persistVars>>

\* let path_index = mft_cache.get_path_index()
QueryGetPathIndex ==
    /\ qpc = "gotFiles"
    /\ qpc' = "gotBoth"
    /\ UNCHANGED <<args, results, call, reply, sent, input, sysVars, ins, output, storeVars, buildVars, envVars, monitorVars, persistVars>>

\* The scan over files.iter(); both guards are dropped when fast_search returns.
QueryScan ==
    /\ qpc = "gotBoth"
    /\ \E order \in HashMapIter(files) : results' = scan(files, order, 1, args, <<>>)
    /\ qpc' = "idle"
    /\ UNCHANGED <<args, call, reply, sent, input, sysVars, ins, output, storeVars, buildVars, envVars, monitorVars, persistVars>>


-----------------------------------------------------------------------------
(* UsnJournalMonitor: start(), stop() and the loop of the spawned thread.  *)

Alive(t) == wpc[t] \notin {"unborn", "exited"}

\* start(): returns at once when running; else sets running, spawns the loop
\* (with its own last_usn = 0) and keeps the join handle.
Start ==
    /\ mpc = "idle"
    /\ IF running
         THEN UNCHANGED <<running, thread_handle, wpc, last_usn>>
         ELSE /\ \E t \in Monitors :
                   /\ wpc[t] = "unborn"
                   /\ \A u \in Monitors : u < t => wpc[u] # "unborn"
                   /\ wpc' = [wpc EXCEPT ![t] = "check"]
                   /\ last_usn' = [last_usn EXCEPT ![t] = 0]
                   /\ thread_handle' = t
              /\ running' = TRUE
    /\ UNCHANGED <<mpc, journal_data, envVars, storeVars, buildVars, queryVars, persistVars>>

\* stop(): returns at once when not running; else clears the flag.
StopRequest ==
    /\ mpc = "idle"
    /\ IF running
         THEN running' = FALSE /\ mpc' = "joining"
         ELSE UNCHANGED <<running, mpc>>
    /\ UNCHANGED <<thread_handle, wpc, last_usn, journal_data,
                   envVars, storeVars, buildVars, queryVars, persistVars>>

StopWithoutJoin ==
    /\ mpc = "joining"
    /\ thread_handle' = None
    /\ mpc' = "idle"
    /\ UNCHANGED <<running, wpc, last_usn, journal_data,
                   envVars, storeVars, buildVars, queryVars, persistVars>>

\* stop(): thread_handle.take() and handle.join(), which waits for the loop to end.
StopJoin ==
    /\ mpc = "joining"
    /\ thread_handle # None => wpc[thread_handle] = "exited"
    /\ thread_handle' = None
    /\ mpc' = "idle"
    /\ UNCHANGED <<running, wpc, last_usn, journal_data,
                   envVars, storeVars, buildVars, queryVars, persistVars>>

\* while running.load(Ordering::Relaxed); when the loop ends the thread and its
\* locals are gone.
LoopCheck(t) ==
    /\ wpc[t] = "check"
    /\ IF running
         THEN /\ wpc' = [wpc EXCEPT ![t] = "poll"]
              /\ UNCHANGED <<last_usn, journal_data>>
         ELSE /\ wpc' = [wpc EXCEPT ![t] = "exited"]
              /\ last_usn' = [last_usn EXCEPT ![t] = 0]
              /\ journal_data' = [journal_data EXCEPT ![t] = NoJournalData]
    /\ UNCHANGED <<running, thread_handle, mpc,
                   envVars, storeVars, buildVars, queryVars, persistVars>>

HasNewChangesOrSame(next_usn, last) == next_usn >= last

\* journal_data.NextUsn > last_usn
HasNewChanges(next_usn, last) == next_usn > last

\* One pass of the loop body: query_journal, then the comparison with last_usn.
\* A failed query is logged; the first position seen is only remembered; a later,
\* higher position calls the callback (handle_filesystem_changes -> rebuild).
Poll(t) ==
    /\ wpc[t] = "poll"
    /\ IF ~journal.ok
         THEN /\ wpc' = [wpc EXCEPT ![t] = "sleep"]
              /\ UNCHANGED <<journal_data, last_usn, rpc>>
         ELSE /\ journal_data' = [journal_data EXCEPT
                     ![t] = [UsnJournalID |-> journal.id, NextUsn |-> journal.next]]
              /\ IF HasNewChanges(journal.next, last_usn[t])
                   THEN IF last_usn[t] > 0
                          THEN /\ wpc' = [wpc EXCEPT ![t] = "callback"]
                               /\ rpc' = [rpc EXCEPT ![t] = "clear_files"]
                               /\ UNCHANGED last_usn
                          ELSE /\ last_usn' = [last_usn EXCEPT ![t] = journal.next]
                               /\ wpc' = [wpc EXCEPT ![t] = "sleep"]
                               /\ UNCHANGED rpc
                   ELSE /\ wpc' = [wpc EXCEPT ![t] = "sleep"]
                        /\ UNCHANGED <<last_usn, rpc>>
    /\ UNCHANGED <<running, thread_handle, mpc, scanVars, envVars, storeVars, queryVars, persistVars>>

\* The callback has returned: last_usn = journal_data.NextUsn
AfterCallback(t) ==
    /\ wpc[t] = "callback"
    /\ rpc[t] = "done"
    /\ rpc' = [rpc EXCEPT ![t] = "none"]
    /\ last_usn' = [last_usn EXCEPT ![t] = journal_data[t].NextUsn]
    /\ wpc' = [wpc EXCEPT ![t] = "sleep"]
    /\ UNCHANGED <<running, thread_handle, mpc, journal_data, scanVars,
                   envVars, storeVars, queryVars, persistVars>>

\* thread::sleep(Duration::from_secs(1)), then the next iteration.
Sleep(t) ==
    /\ wpc[t] = "sleep"
    /\ wpc' = [wpc EXCEPT ![t] = "check"]
    /\ UNCHANGED <<running, thread_handle, mpc, last_usn, journal_data,
                   envVars, storeVars, buildVars, queryVars, persistVars>>

MonitorStep(t) ==
    \/ LoopCheck(t) \/ Poll(t) \/ AfterCallback(t) \/ Sleep(t)
    \/ (wpc[t] = "callback" /\ RebuildStep(t))

WatchNext ==
    \/ FsChange
    \/ JournalDelete
    \/ JournalCreate
    \/ Start
    \/ StopRequest
    \/ StopJoin
    \/ \E t \in Monitors : MonitorStep(t)

WatchSpec == Init /\ [][WatchNext]_vars

\* Init without the history of MFT reads, which the loop of the monitor never
\* looks at.
WatchFairInit ==
    /\ config = [DefaultConfig EXCEPT !.persistence_enabled = FALSE]
    /\ opc = "opened"
    /\ fs \in FsStates
    /\ journal = [ok |-> TRUE, id |-> 1, next |-> 1]
    /\ mft_read_usn = -1
    /\ unwatched = FALSE
    /\ InitStore(fs)
    /\ InitRest

WatchFair ==
    /\ WatchFairInit
    /\ [][WatchNext]_vars
    /\ WF_vars(StopJoin)
    /\ \A t \in Monitors : WF_vars(MonitorStep(t))

-----------------------------------------------------------------------------
Next ==
    \/ FsChange
    \/ CallRebuild
    \/ RebuildStep(0)
    \/ RebuildReturn
    \/ QueryGetFiles
    \/ QueryGetPathIndex
    \/ QueryScan

Spec == Init /\ [][Next]_vars

-----------------------------------------------------------------------------
(* cache_persistence.rs: file names.  A name is the sequence of its parts, *)
(* so the Path and str methods act on it as they act on the string.        *)

\* format!("mft_cache_{}.bin", timestamp) and the three other names of save_cache.
cache_file(ts) == <<"mft_cache_", ToString(ts), ".bin">>
meta_file(ts) == <<"mft_cache_", ToString(ts), ".meta">>
temp_cache(ts) == <<".mft_cache_", ToString(ts), ".tmp">>
temp_meta(ts) == <<".mft_cache_", ToString(ts), ".meta", ".tmp">>

HasExtension(p) == Len(p) > 1 /\ p[Len(p)] \in {".bin", ".meta", ".tmp"}

\* Path::extension(): the part after the last dot, without the dot ("" for None).
path_extension(p) ==
    IF ~HasExtension(p) THEN ""
    ELSE CASE p[Len(p)] = ".bin" -> "bin" [] p[Len(p)] = ".meta" -> "meta" [] OTHER -> "tmp"

\* Path::file_stem(): the name without its last extension.
file_stem(p) == IF HasExtension(p) THEN SubSeq(p, 1, Len(p) - 1) ELSE p

\* Path::with_extension(ext): the stem followed by ext (the empty sequence for "").
with_extension(p, ext) == file_stem(p) \o ext

\* str::strip_prefix / strip_suffix: the set holding the rest, or the empty set for None.
strip_prefix(s, prefix) == IF Len(s) > 0 /\ s[1] = prefix THEN {Tail(s)} ELSE {}
strip_suffix(s, suffix) == IF Len(s) > 0 /\ s[Len(s)] = suffix THEN {SubSeq(s, 1, Len(s) - 1)} ELSE {}

\* str::parse::<u64>().ok(): the set holding the number, or the empty set.
parse_u64(s) == {n \in 0..MaxTime : s = <<ToString(n)>>}

\* The directory as a map, and fs::rename on it.
Put(d, k, v) == [x \in DOMAIN d \cup {k} |-> IF x = k THEN v ELSE d[x]]
Remove(d, k) == [x \in DOMAIN d \ {k} |-> d[x]]
rename(d, from, to) == Put(Remove(d, from), to, d[from])

\* The scan of find_cache_files and cleanup_old_caches: every *.meta whose name
\* without the extension exists and whose stem yields a timestamp.
ScanCacheDir(d) ==
    {[cache_path |-> with_extension(pn[1], <<>>), meta_path |-> pn[1], timestamp |-> pn[2]] :
        pn \in {qn \in (DOMAIN d) \X (0..MaxTime) :
                  /\ path_extension(qn[1]) = "meta"
                  /\ with_extension(qn[1], <<>>) \in DOMAIN d
                  /\ \E a \in strip_prefix(file_stem(qn[1]), "mft_cache_") :
                       \E b \in strip_suffix(a, ".meta") : qn[2] \in parse_u64(b)}}

ScanByVersionNames(d) ==
    {[cache_path |-> cache_file(ts), meta_path |-> meta_file(ts), timestamp |-> ts] :
        ts \in {n \in 0..MaxTime : meta_file(n) \in DOMAIN d /\ cache_file(n) \in DOMAIN d}}

find_cache_files(d) == ScanCacheDir(d)

\* load_cache: None without candidates; else the newest candidate's entries are
\* inserted into the cache that the inner with_config has built from the MFT X.
load_cache(d, X) ==
    LET cache_files == find_cache_files(d) IN
    IF cache_files = {} THEN NoCache
    ELSE LET first == CHOOSE c \in cache_files :
                          \A o \in cache_files : o.timestamp <= c.timestamp
             entries == d[first.cache_path].entries
         IN  [found |-> TRUE, timestamp |-> first.timestamp,
              files |-> [i \in X \cup DOMAIN entries |->
                           IF i \in DOMAIN entries THEN entries[i] ELSE FileEntry(i)]]

\* save_cache keeps this many versions: cleanup_old_caches(cache_dir, 3).
KeepVersions == 3

\* cleanup_old_caches: all but the `keep` newest candidates are removed.
cleanup_old_caches(d, keep) ==
    LET cache_files == ScanCacheDir(d)
        files_to_remove ==
            {c \in cache_files :
                Cardinality({o \in cache_files : o.timestamp > c.timestamp}) >= keep}
        gone == {c.cache_path : c \in files_to_remove} \cup {c.meta_path : c \in files_to_remove}
    IN  [x \in DOMAIN d \ gone |-> d[x]]

\* path_index.insert(entry.path.clone(), id) over the loaded entries.
LoadedPathIndex(F) ==
    [p \in {F[i].path : i \in DOMAIN F} |-> CHOOSE i \in DOMAIN F : F[i].path = p]

-----------------------------------------------------------------------------
(* save_cache, thread w.  A file's content is [entries, file_count,        *)
(* complete]: the entries written, the count in a metadata file, and       *)
(* whether the writer has flushed everything it had to write.              *)

\* SystemTime::now() in seconds (the clock never runs backwards), the four
\* names, File::create(&temp_cache).
SaveCreate(w) ==
    /\ rpc[w] = "save_begin"
    /\ \E now \in clock..MaxTime :
          /\ clock' = now
          /\ stamp' = [stamp EXCEPT ![w] = now]
          /\ dir' = Put(dir, temp_cache(now),
                        [entries |-> EmptyMap, file_count |-> 0, complete |-> FALSE])
    /\ rpc' = [rpc EXCEPT ![w] = "save_lock"]
    /\ UNCHANGED <<storeVars, scanVars, envVars, queryVars, monitorVars,
                   config, opc, loaded, saved, crashes>>

\* The four read guards are taken; the metadata is written to temp_meta.
SaveMeta(w) ==
    /\ rpc[w] = "save_lock"
    /\ dir' = Put(dir, temp_meta(stamp[w]),
                  [entries |-> EmptyMap, file_count |-> Cardinality(DOMAIN files),
                   complete |-> TRUE])
    /\ rpc' = [rpc EXCEPT ![w] = "save_write"]
    /\ UNCHANGED <<storeVars, scanVars, envVars, queryVars, monitorVars,
                   clock, stamp, config, opc, loaded, saved, crashes>>

\* One turn of `for (id, entry) in files.iter()`.
SaveWriteEntry(w) ==
    /\ rpc[w] = "save_write"
    /\ temp_cache(stamp[w]) \in DOMAIN dir
    /\ \E id \in DOMAIN files \ DOMAIN dir[temp_cache(stamp[w])].entries :
          dir' = [dir EXCEPT ![temp_cache(stamp[w])].entries = Put(@, id, files[id])]
    /\ UNCHANGED <<storeVars, buildVars, envVars, queryVars, monitorVars,
                   clock, stamp, config, opc, loaded, saved, crashes>>

\* writer.flush() after the last entry; the guards are dropped.
SaveFlush(w) ==
    /\ rpc[w] = "save_write"
    /\ temp_cache(stamp[w]) \in DOMAIN dir
    /\ DOMAIN dir[temp_cache(stamp[w])].entries = DOMAIN files
    /\ dir' = [dir EXCEPT ![temp_cache(stamp[w])].complete = TRUE]
    /\ rpc' = [rpc EXCEPT ![w] = "save_rename_data"]
    /\ UNCHANGED <<storeVars, scanVars, envVars, queryVars, monitorVars,
                   clock, stamp, config, opc, loaded, saved, crashes>>

SaveRenameDataSkipped(w) ==
    /\ rpc[w] = "save_rename_data"
    /\ rpc' = [rpc EXCEPT ![w] = "save_rename_meta"]
    /\ UNCHANGED <<storeVars, scanVars, envVars, queryVars, monitorVars, persistVars>>

\* fs::rename(&temp_cache, &cache_file)?
SaveRenameData(w) ==
    /\ rpc[w] = "save_rename_data"
    /\ IF temp_cache(stamp[w]) \in DOMAIN dir
         THEN /\ dir' = rename(dir, temp_cache(stamp[w]), cache_file(stamp[w]))
              /\ rpc' = [rpc EXCEPT ![w] = "save_rename_meta"]
         ELSE /\ rpc' = [rpc EXCEPT ![w] = "done"]
              /\ UNCHANGED dir
    /\ UNCHANGED <<storeVars, scanVars, envVars, queryVars, monitorVars,
                   clock, stamp, config, opc, loaded, saved, crashes>>

\* fs::rename(&temp_meta, &meta_file)?
SaveRenameMeta(w) ==
    /\ rpc[w] = "save_rename_meta"
    /\ IF temp_meta(stamp[w]) \in DOMAIN dir
         THEN /\ dir' = rename(dir, temp_meta(stamp[w]), meta_file(stamp[w]))
              /\ rpc' = [rpc EXCEPT ![w] = "save_cleanup"]
         ELSE /\ rpc' = [rpc EXCEPT ![w] = "done"]
              /\ UNCHANGED dir
    /\ UNCHANGED <<storeVars, scanVars, envVars, queryVars, monitorVars,
                   clock, stamp, config, opc, loaded, saved, crashes>>

\* cleanup_old_caches(cache_dir, 3)?, then Ok(()).
SaveCleanup(w) ==
    /\ rpc[w] = "save_cleanup"
    /\ dir' = cleanup_old_caches(dir, KeepVersions)
    /\ saved' = [found |-> TRUE, timestamp |-> stamp[w], files |-> files]
    /\ rpc' = [rpc EXCEPT ![w] = "done"]
    /\ UNCHANGED <<storeVars, scanVars, envVars, queryVars, monitorVars,
                   clock, stamp, config, opc, loaded, crashes>>

SaveStep(w) ==
    \/ SaveCreate(w) \/ SaveMeta(w) \/ SaveWriteEntry(w) \/ SaveFlush(w)
    \/ SaveRenameData(w) \/ SaveRenameMeta(w) \/ SaveCleanup(w)

\* The API caller enters save_to_disk(), which returns at once without persistence.
CallSave ==
    /\ opc = "opened"
    /\ rpc[0] = "none"
    /\ rpc' = [rpc EXCEPT ![0] = IF config.persistence_enabled THEN "save_begin" ELSE "done"]
    /\ UNCHANGED <<storeVars, scanVars, envVars, queryVars, monitorVars, persistVars>>

-----------------------------------------------------------------------------
(* MftCache::with_config (open), and the life of the service process.      *)

\* with_config up to its rebuild: the empty cache, load_from_disk(), and either
\* the loaded cache replaces it or rebuild() is called.
Open ==
    /\ opc = "closed"
    /\ loaded' = IF config.persistence_enabled THEN load_cache(dir, fs) ELSE NoCache
    /\ IF loaded'.found
         THEN /\ files' = loaded'.files
              /\ extension_index' = ExtensionIndexOf(DOMAIN loaded'.files)
              /\ name_index' = NameIndexOf(DOMAIN loaded'.files)
              /\ path_index' = LoadedPathIndex(loaded'.files)
              /\ opc' = "opened"
              /\ UNCHANGED rpc
         ELSE /\ files' = EmptyMap
              /\ extension_index' = EmptyMap
              /\ name_index' = EmptyMap
              /\ path_index' = EmptyMap
              /\ rpc' = [rpc EXCEPT ![0] = "clear_files"]
              /\ opc' = "rebuilding"
    /\ files_processed' = 0
    /\ memory_usage' = 0
    /\ UNCHANGED <<scanVars, envVars, queryVars, monitorVars, dir, clock, stamp, config, saved, crashes>>

\* with_config: its rebuild() has returned, Ok(cache).
OpenReturn ==
    /\ opc = "rebuilding"
    /\ rpc[0] = "done"
    /\ rpc' = [rpc EXCEPT ![0] = "none"]
    /\ opc' = "opened"
    /\ UNCHANGED <<storeVars, scanVars, envVars, queryVars, monitorVars,
                   dir, clock, stamp, config, loaded, saved, crashes>>

\* The process dies at any point: memory is gone, the directory stays as it is.
Crash ==
    /\ opc # "closed"
    /\ crashes < MaxCrashes
    /\ crashes' = crashes + 1
    /\ files' = EmptyMap
    /\ extension_index' = EmptyMap
    /\ name_index' = EmptyMap
    /\ path_index' = EmptyMap
    /\ files_processed' = 0
    /\ memory_usage' = 0
    /\ rpc' = [rpc EXCEPT ![0] = "none"]
    /\ mft' = [mft EXCEPT ![0] = {}]
    /\ oom' = [oom EXCEPT ![0] = FALSE]
    /\ stamp' = [stamp EXCEPT ![0] = 0]
    /\ opc' = "closed"
    /\ loaded' = NoCache
    /\ UNCHANGED <<envVars, queryVars, monitorVars, dir, clock, config, saved>>

\* While the service is down a data file is lost from the cache directory.
DataFileLost ==
    /\ opc = "closed"
    /\ \E p \in DOMAIN dir :
          /\ path_extension(p) = "bin"
          /\ dir' = Remove(dir, p)
    /\ UNCHANGED <<storeVars, buildVars, envVars, queryVars, monitorVars,
                   clock, stamp, config, opc, loaded, saved, crashes>>

\* While the service is down a data file is cut short: it loses one entry.
DataFileTruncated ==
    /\ opc = "closed"
    /\ \E p \in DOMAIN dir :
          /\ path_extension(p) = "bin"
          /\ dir[p].complete
          /\ \E id \in DOMAIN dir[p].entries :
                dir' = [dir EXCEPT ![p] = [entries |-> Remove(dir[p].entries, id),
                                           file_count |-> 0, complete |-> FALSE]]
    /\ UNCHANGED <<storeVars, buildVars, envVars, queryVars, monitorVars,
                   clock, stamp, config, opc, loaded, saved, crashes>>

\* The service is about to be started with persistence on, with_max_versions(1)
\* and an empty directory, on a volume in any of its states.
PersistInit ==
    /\ config = [DefaultConfig EXCEPT !.max_cache_versions = 1]
    /\ opc = "closed"
    /\ fs \in FsStates
    /\ journal = [ok |-> TRUE, id |-> 1, next |-> 1]
    /\ mft_read_usn = journal.next
    /\ unwatched = FALSE
    /\ files = EmptyMap
    /\ extension_index = EmptyMap
    /\ name_index = EmptyMap
    /\ path_index = EmptyMap
    /\ files_processed = 0
    /\ memory_usage = 0
    /\ InitRest

PersistNext ==
    \/ Open
    \/ OpenReturn
    \/ CallRebuild
    \/ RebuildStep(0)
    \/ RebuildReturn
    \/ CallSave
    \/ SaveStep(0)
    \/ Crash
    \/ DataFileLost
    \/ DataFileTruncated

PersistSpec == PersistInit /\ [][PersistNext]_vars

-----------------------------------------------------------------------------
(* Claims about the store under concurrent readers and rebuilds.           *)

IndexedIds ==
    UNION {extension_index[e] : e \in DOMAIN extension_index}
    \cup UNION {name_index[n] : n \in DOMAIN name_index}
    \cup {path_index[p] : p \in DOMAIN path_index}

\* C1: in every state outside a write critical section, every id found in the
\* extension index, the name index or the path index is a key of files.
IndexIdsAreInFiles == IndexedIds \subseteq DOMAIN files

\* C2: a query that holds its read guards sees a complete store (the maps of
\* one build over one state of the volume), never an empty or half-published one.
QuerySeesCompleteStore ==
    qpc = "gotBoth" =>
        \E X \in FsStates : files = FilesOf(X) /\ path_index = PathIndexOf(X)

\* C3: between the two reads of one fast_search call (files, then path_index)
\* no writer changes any of the four maps.
NoWriteBetweenQueryReads ==
    [][qpc = "gotFiles" =>
        UNCHANGED <<files, extension_index, name_index, path_index>>]_vars

-----------------------------------------------------------------------------
(* Claims about the journal monitor.                                       *)

NoRebuildRunning == \A w \in Threads : rpc[w] = "none"

\* A loop that has caught up with the journal: its last pass saw the journal as it
\* is now and any callback of that pass has returned, so unless the journal
\* moves again it will never call the callback.
CaughtUp(t) ==
    /\ wpc[t] \in {"sleep", "check", "poll"}
    /\ running
    /\ journal.ok
    /\ journal_data[t] = [UsnJournalID |-> journal.id, NextUsn |-> journal.next]

\* C6: when every change since the last MFT read was journaled while the monitor
\* was running, and the monitor has caught up with the journal, the index equals
\* a fresh build of the volume as it is now.
CaughtUpIndexIsFresh ==
    \A t \in Monitors :
        (CaughtUp(t) /\ NoRebuildRunning /\ ~unwatched) =>
            /\ files = FilesOf(fs)
            /\ extension_index = ExtensionIndexOf(fs)
            /\ name_index = NameIndexOf(fs)
            /\ path_index = PathIndexOf(fs)

\* C7: the position a monitor loop catches up from is not later than the journal
\* position at which the MFT was read for the store it keeps fresh.
CatchUpStartsAtBuildPosition ==
    \A t \in Monitors :
        (Alive(t) /\ wpc[t] # "callback" /\ last_usn[t] > 0
            /\ journal.ok /\ journal_data[t].UsnJournalID = journal.id)
        => last_usn[t] <= mft_read_usn

\* The step is thread t's pass through the loop body.
PollStep(t) == wpc[t] = "poll" /\ wpc'[t] # "poll"

JournalResetSeen(t) ==
    /\ journal_data[t].UsnJournalID # 0
    /\ (~journal.ok \/ journal.id # journal_data[t].UsnJournalID)

\* C9: a pass of the loop that finds the journal deleted or re-created starts a
\* full rebuild.
JournalResetStartsRebuild ==
    [][\A t \in Monitors :
          (PollStep(t) /\ JournalResetSeen(t)) => rpc'[t] = "clear_files"]_vars

\* C10: there is never more than one loop; once stop() has returned (the
\* controller is idle and running is false) no loop is alive and no callback is
\* in progress; and a stop() that has cleared the flag does return.
StopInvariant ==
    /\ Cardinality({t \in Monitors : Alive(t)}) <= 1
    /\ (mpc = "idle" /\ ~running) =>
          \A t \in Monitors : ~Alive(t) /\ rpc[t] = "none"
    /\ (mpc = "idle" /\ running) =>
          (thread_handle # None /\ Alive(thread_handle))

StopStopsTheLoop == []StopInvariant /\ ((mpc = "joining") ~> (mpc = "idle" /\ ~running))

\* A first loop was stopped and joined, and a later start() has its loop running.
StopStopsTheLoopWitness ==
    \E t, u \in Monitors :
        /\ wpc[t] = "exited"
        /\ wpc[u] = "poll"
        /\ last_usn[u] > 0
        /\ mpc = "idle"

-----------------------------------------------------------------------------
(* Claims about persistence.                                               *)

Timestamps == 0..MaxTime

\* The step publishes the metadata file of thread w's save.
MetaRenamed(w) == rpc[w] = "save_rename_meta" /\ rpc'[w] = "save_cleanup"

\* The step is the load of an open.
LoadStep == opc = "closed" /\ opc' # "closed"

CompleteData(d, ts) == cache_file(ts) \in DOMAIN d /\ d[cache_file(ts)].complete

NewestVersionIsSaved ==
    /\ saved.found
    /\ CompleteData(dir, saved.timestamp)
    /\ dir[cache_file(saved.timestamp)].entries = saved.files
    /\ meta_file(saved.timestamp) \in DOMAIN dir
    /\ \A ts \in Timestamps : ts > saved.timestamp => meta_file(ts) \notin DOMAIN dir

\* C5: a load from a directory whose newest version is the saved store S returns
\* a store with exactly the entries of S.
SaveLoadRoundTrip ==
    [][(LoadStep /\ NewestVersionIsSaved) =>
          (loaded'.found /\ loaded'.files = saved.files)]_vars

-----------------------------------------------------------------------------
(* The cache with its monitor and an API caller side by side: rebuild()    *)
(* takes &self and no lock of its own, so the caller's rebuild and the     *)
(* rebuild of the monitor's callback are separate threads on one store.    *)

ServiceNext ==
    \/ WatchNext
    \/ CallRebuild
    \/ RebuildStep(0)
    \/ RebuildReturn

ServiceSpec == Init /\ [][ServiceNext]_vars

\* The four maps are the output of one build over one state of the volume.
OneBuild(X) ==
    /\ files = FilesOf(X)
    /\ extension_index = ExtensionIndexOf(X)
    /\ name_index = NameIndexOf(X)
    /\ path_index = PathIndexOf(X)

\* Whenever no rebuild is running the store is the output of exactly one build.
StoreIsOneBuild == NoRebuildRunning => \E X \in FsStates : OneBuild(X)

\* C11: rebuilds exclude each other: no two threads are inside rebuild() at the
\* same time, and the store they leave behind is the output of exactly one
\* build, never a mix of the maps of two builds.
RebuildsAreExclusive ==
    /\ Cardinality({w \in Threads : rpc[w] \notin {"none", "done"}}) <= 1
    /\ StoreIsOneBuild

-----------------------------------------------------------------------------
(* Claims about open.                                                      *)

\* The directory holds a version with its metadata file and a complete data file.
UsableVersionExists ==
    \E ts \in Timestamps : meta_file(ts) \in DOMAIN dir /\ CompleteData(dir, ts)

\* C12: open with a usable cache version in the directory returns the store
\* loaded from it without running the Builder; open without one starts the
\* Builder, once.
OpenLoadsOrBuilds ==
    [][LoadStep =>
          IF UsableVersionExists
            THEN loaded'.found /\ opc' = "opened" /\ rpc'[0] = "none"
            ELSE ~loaded'.found /\ opc' = "rebuilding" /\ rpc'[0] = "clear_files"]_vars

-----------------------------------------------------------------------------
(* Claims about pruning.                                                   *)

\* The cache versions in directory d: timestamps with both files at their names.
Versions(d) ==
    {ts \in Timestamps : meta_file(ts) \in DOMAIN d /\ cache_file(ts) \in DOMAIN d}

\* The step is the return of thread w's save_cache with Ok.
SaveReturned(w) == rpc[w] = "save_cleanup" /\ rpc'[w] = "done"

\* C13: when a save returns Ok the directory holds at most
\* config.max_cache_versions versions, and every version the save removed is
\* older than every version it kept.
SaveKeepsNewestVersions ==
    [][\A w \in Threads : SaveReturned(w) =>
          /\ Cardinality(Versions(dir')) <= config.max_cache_versions
          /\ \A a \in Versions(dir) \ Versions(dir') : \A b \in Versions(dir') : a < b]_vars

-----------------------------------------------------------------------------
(* Claims about the choice of the version to load.                         *)

\* The versions a load can use: metadata file present, data file complete.
UsableVersions(d) == {ts \in Timestamps : meta_file(ts) \in DOMAIN d /\ CompleteData(d, ts)}

\* C14: a load picks the newest usable version of the directory, passing over
\* newer versions that are unusable, and reports no cache only when no version
\* is usable.
LoadPicksNewestUsable ==
    [][LoadStep =>
          IF UsableVersions(dir) = {}
            THEN ~loaded'.found
            ELSE /\ loaded'.found
                 /\ loaded'.timestamp \in UsableVersions(dir)
                 /\ \A ts \in UsableVersions(dir) : ts <= loaded'.timestamp]_vars

-----------------------------------------------------------------------------
(* Claims about damaged cache versions.                                    *)

\* Version ts of directory d has a data file that is cut short.
Truncated(d, ts) == cache_file(ts) \in DOMAIN d /\ ~d[cache_file(ts)].complete

-----------------------------------------------------------------------------
(* Builds under the memory governor: a cache without persistence whose     *)
(* max_files_before_memcheck is small enough for samples to be taken.      *)

BuildInit ==
    /\ \E n \in 1..MaxFiles :
          config = [DefaultConfig EXCEPT !.persistence_enabled = FALSE,
                                         !.max_files_before_memcheck = n]
    /\ opc = "closed"
    /\ fs \in FsStates
    /\ journal = [ok |-> TRUE, id |-> 1, next |-> 1]
    /\ mft_read_usn = journal.next
    /\ unwatched = FALSE
    /\ files = EmptyMap
    /\ extension_index = EmptyMap
    /\ name_index = EmptyMap
    /\ path_index = EmptyMap
    /\ files_processed = 0
    /\ memory_usage = 0
    /\ InitRest

BuildNext ==
    \/ Open
    \/ OpenReturn
    \/ CallRebuild
    \/ RebuildStep(0)
    \/ RebuildReturn
    \/ FsChange

BuildSpec == BuildInit /\ [][BuildNext]_vars

\* C16: once a memory sample of a build was over 1.1 times the maximum, that
\* build publishes nothing and does not return Ok: the store is and stays empty.
MemoryTripAbortsBuild ==
    \A w \in Threads :
        oom[w] =>
            /\ rpc[w] # "done"
            /\ files = EmptyMap
            /\ extension_index = EmptyMap
            /\ name_index = EmptyMap
            /\ path_index = EmptyMap

-----------------------------------------------------------------------------
(* Claims about the indexes of a finished store.                           *)

BuildPcs ==
    {"clear_files", "clear_ext", "clear_name", "clear_path", "read_mft",
     "pub_files", "pub_ext", "pub_name", "pub_path"}

\* The cache is open and no thread is between the first and the last write of
\* a rebuild.
StoreSettled == opc = "opened" /\ \A w \in Threads : rpc[w] \notin BuildPcs

\* Entry id of files is found in each of the three indexes.
Indexed(id) ==
    LET e == files[id] IN
    /\ to_lowercase(e.name) \in DOMAIN name_index
    /\ id \in name_index[to_lowercase(e.name)]
    /\ extension(e.name) # "" =>
          /\ to_lowercase(extension(e.name)) \in DOMAIN extension_index
          /\ id \in extension_index[to_lowercase(extension(e.name))]
    /\ to_lowercase(e.path) \in DOMAIN path_index
    /\ path_index[to_lowercase(e.path)] = id

\* C17: after a build or a cache load every entry (id, e) of files is in the
\* name index under lower(e.name), in the extension index under its extension
\* when it has one, and the path index maps lower(e.path) to id.
EveryEntryIsIndexed == StoreSettled => \A id \in DOMAIN files : Indexed(id)


-----------------------------------------------------------------------------
(* A volume with a case-sensitive directory tree.                          *)

\* DOCS\b.txt is created or deleted.
CaseTwinChange ==
    /\ fs' = IF CaseTwin \in fs THEN fs \ {CaseTwin} ELSE fs \cup {CaseTwin}
    /\ journal.ok => journal.next < MaxUsn
    /\ journal' = IF journal.ok THEN [journal EXCEPT !.next = @ + 1] ELSE journal
    /\ unwatched' = (Recording /\ (unwatched \/ ~running \/ ~journal.ok))
    /\ UNCHANGED <<mft_read_usn, storeVars, buildVars, queryVars, monitorVars, persistVars>>

CaseNext == BuildNext \/ CaseTwinChange

CaseSpec == BuildInit /\ [][CaseNext]_vars

\* C18: an entry whose case-insensitive full path is that of an entry with a
\* different id is refused, so a store never holds two ids with the same
\* lower-cased path, and every entry keeps its own path-index key.
PathKeysAreUnique ==
    StoreSettled =>
        \A a, b \in DOMAIN files :
            a # b => to_lowercase(files[a].path) # to_lowercase(files[b].path)

-----------------------------------------------------------------------------
(* Claims about the results of fast_search.                                *)

\* C19: a call returns at most max_results results, whatever max_results the
\* caller passes.
ResultsWithinMaxResults == Len(results) <= args.max_results

\* The ids of the entries of F that pass the filters of a.
Matching(F, a) ==
    {i \in DOMAIN F : (a.path = "" \/ contains(F[i].path, a.path)) /\ is_match(a.pattern, F[i].name)}

\* C20: when more entries match than max_results (here for a max_results of at
\* least 1), the results are the matching entries with the smallest ids, in
\* increasing id order.
SmallestIdsFirst ==
    [][(/\ QueryScan
        /\ args.max_results >= 1
        /\ Cardinality(Matching(files, args)) > args.max_results)
       => (/\ \A j \in 1..(Len(results') - 1) : results'[j] < results'[j + 1]
           /\ \A i \in Matching(files, args) :
                 \A j \in 1..Len(results') :
                    i < results'[j] => \E k \in 1..Len(results') : results'[k] = i)]_vars

-----------------------------------------------------------------------------
(* The bridge: validate_search_args and McpBridge::handle_fast_search.     *)
(* A string is the sequence of its characters; a JSON value is a record    *)
(* with its type and, for a string or an integer, its content.             *)

JsonString(str) == [type |-> "string", s |-> str]
JsonInt(i) == [type |-> "int", n |-> i]

\* Value::as_str and Value::as_u64: the set holding the content, empty for None.
as_str(v) == IF v.type = "string" THEN {v.s} ELSE {}
as_u64(v) == IF v.type = "int" /\ v.n >= 0 THEN {v.n} ELSE {}

\* str::contains
str_contains(str, sub) ==
    \E i \in 1..(Len(str) - Len(sub) + 1) : SubSeq(str, i, i + Len(sub) - 1) = sub

MaxPatternLen == 1000
MaxMaxResults == 10000
BridgeDefaultMaxResults == 100

Digits == {"0", "1", "2", "3", "4", "5", "6", "7", "8", "9"}

\* Regex ^\d+[BKMGT]?B?$
validate_size_format(size) ==
    \E k \in 1..Len(size) :
        /\ \A j \in 1..k : size[j] \in Digits
        /\ LET rest == SubSeq(size, k + 1, Len(size)) IN
           \/ rest = <<>>
           \/ Len(rest) = 1 /\ rest[1] \in {"B", "K", "M", "G", "T"}
           \/ Len(rest) = 2 /\ rest[1] \in {"B", "K", "M", "G", "T"} /\ rest[2] = "B"

\* Regex ^\d{4}-\d{2}-\d{2}$
validate_date_format(date) ==
    /\ Len(date) = 10
    /\ \A j \in {1, 2, 3, 4, 6, 7, 9, 10} : date[j] \in Digits
    /\ date[5] = "-" /\ date[8] = "-"

\* validate_filters for the size and date fields: a field that is not a string is
\* not looked at.
validate_filters(a) ==
    /\ \A size \in as_str(a.min_size) : validate_size_format(size)
    /\ \A date \in as_str(a.modified_after) : validate_date_format(date)

\* validate_search_args: TRUE for Ok(()).
validate_search_args(a) ==
    /\ as_str(a.pattern) # {}
    /\ \A pattern \in as_str(a.pattern) :
          /\ pattern # <<>>
          /\ Len(pattern) <= MaxPatternLen
          /\ ~str_contains(pattern, <<".", ".">>)
    /\ \A max_results \in as_u64(a.max_results) :
          max_results # 0 /\ max_results <= MaxMaxResults
    /\ validate_filters(a)

\* args_to_search_request: the SearchRequest of arguments that have a pattern.
\* The cast of max_results to u32 keeps a value that passed validation.
args_to_search_request(a) ==
    [pattern |-> CHOOSE pattern \in as_str(a.pattern) : TRUE,
     search_type |-> "smart",
     max_results |-> IF as_u64(a.max_results) = {} THEN BridgeDefaultMaxResults
                     ELSE CHOOSE m \in as_u64(a.max_results) : TRUE,
     filters |-> "None"]

\* The arguments a client can send.
LongPattern == [j \in 1..(MaxPatternLen + 1) |-> "a"]
JsonPatterns ==
    {Absent, JsonInt(7), JsonString(<<>>), JsonString(<<"a", ".", "t", "x", "t">>),
     JsonString(<<".", ".", "\\", "a">>), JsonString(LongPattern),
     JsonString(SubSeq(LongPattern, 1, MaxPatternLen))}
JsonMaxResults ==
    {Absent, JsonInt(-1), JsonInt(0), JsonInt(1), JsonInt(MaxMaxResults), JsonInt(MaxMaxResults + 1)}
JsonSizes == {Absent, JsonString(<<"1", "0", "M", "B">>), JsonString(<<"b", "i", "g">>)}
JsonDates ==
    {Absent, JsonString(<<"2", "0", "2", "5", "-", "0", "7", "-", "1", "7">>),
     JsonString(<<"t", "o", "d", "a", "y">>)}
Calls ==
    [pattern : JsonPatterns, max_results : JsonMaxResults,
     min_size : {Absent}, modified_after : {Absent}]
    \cup [pattern : {JsonString(<<"a", ".", "t", "x", "t">>)}, max_results : {Absent},
          min_size : JsonSizes, modified_after : JsonDates]

\* handle_fast_search: an error for arguments that fail validation or give no
\* request; else the request is written to the pipe when the client is connected
\* (the help text for ServiceNotRunning is a success response).
handle_fast_search ==
    /\ Len(sent) < MaxRequests
    /\ \E a \in Calls, connected \in BOOLEAN :
          /\ call' = a
          /\ IF ~validate_search_args(a) \/ as_str(a.pattern) = {}
               THEN reply' = "error" /\ sent' = sent
               ELSE /\ reply' = "result"
                    /\ sent' = IF connected THEN Append(sent, args_to_search_request(a)) ELSE sent
    /\ UNCHANGED <<qpc, args, results, input, sysVars, ins, output, storeVars, buildVars, envVars,
                   monitorVars, persistVars>>

BridgeNext == handle_fast_search

BridgeSpec == Init /\ [][BridgeNext]_vars

\* The request is one the claim calls invalid: no or an empty pattern, a pattern
\* of more than 1000 characters or with "..", a max_results outside 1..10000, a
\* size or a date that does not have the format.
FailsValidation(a) ==
    \/ as_str(a.pattern) = {}
    \/ \E pattern \in as_str(a.pattern) :
          pattern = <<>> \/ Len(pattern) > 1000 \/ str_contains(pattern, <<".", ".">>)
    \/ a.max_results.type = "int" /\ (a.max_results.n < 1 \/ a.max_results.n > 10000)
    \/ \E size \in as_str(a.min_size) : ~validate_size_format(size)
    \/ \E date \in as_str(a.modified_after) : ~validate_date_format(date)

\* C21: a request that fails validation is answered with an error and nothing
\* is written to the pipe for it; the store and the scan state stay as they are.
InvalidRequestNotForwarded ==
    [][(handle_fast_search /\ FailsValidation(call')) =>
          (reply' = "error" /\ sent' = sent /\ UNCHANGED <<storeVars, qpc, results>>)]_vars

-----------------------------------------------------------------------------
(* Functions checked on their own: the state is the arguments of one call  *)
(* and its result.                                                         *)

FnInit(Inputs) ==
    /\ config = [DefaultConfig EXCEPT !.persistence_enabled = FALSE]
    /\ opc = "opened"
    /\ fs = {1}
    /\ journal = [ok |-> TRUE, id |-> 1, next |-> 1]
    /\ mft_read_usn = journal.next
    /\ unwatched = FALSE
    /\ InitStore(fs)
    /\ InitProgram
    /\ input \in Inputs
    /\ output = NoOutput

\* The strings of at most n characters of the set C.
StringsOver(C, n) == UNION {[1..k -> C] : k \in 0..n}

-----------------------------------------------------------------------------
(* Patterns: glob_to_regex (ntfs_reader.rs) and pattern_to_regex          *)
(* (search_engine.rs), and the matching of the regex crate for the         *)
(* expressions the two can produce.                                        *)

\* char::to_lowercase for the letters of the model.
lower_char(c) ==
    CASE c = "A" -> "a" [] c = "B" -> "b" [] c = "R" -> "r" [] c = "S" -> "s"
      [] c = "T" -> "t" [] c = "X" -> "x" [] OTHER -> c
lower_str(str) == [j \in 1..Len(str) |-> lower_char(str[j])]

\* The characters regex::escape puts a backslash before.
RegexMeta == {"\\", ".", "+", "*", "?", "(", ")", "|", "[", "]", "{", "}", "^", "$", "#", "&", "-", "~"}

RECURSIVE regex_escape(_)
regex_escape(str) ==
    IF str = <<>> THEN <<>>
    ELSE (IF Head(str) \in RegexMeta THEN <<"\\", Head(str)>> ELSE <<Head(str)>>)
         \o regex_escape(Tail(str))

\* str::replace for a pattern of one character.
RECURSIVE str_replace(_, _, _)
str_replace(str, from, to) ==
    IF str = <<>> THEN <<>>
    ELSE (IF Head(str) = from THEN to ELSE <<Head(str)>>) \o str_replace(Tail(str), from, to)

\* pattern_to_regex: the expression between ^ and $, and whether (?i) is set.
pattern_to_regex(pattern) ==
    IF pattern = <<"*">> \/ pattern = <<"*", ".", "*">>
      THEN [body |-> <<".", "*">>, anchored |-> FALSE, case_insensitive |-> FALSE]
      ELSE LET escaped == regex_escape(pattern)
               dots == str_replace(escaped, ".", <<"\\", ".", ".">>)
               stars == str_replace(dots, "*", <<".", "*">>)
               marks == str_replace(stars, "?", <<".">>)
           IN  [body |-> marks, anchored |-> TRUE, case_insensitive |-> TRUE]

\* glob_to_regex: one piece of expression per character of the pattern.
RECURSIVE glob_body(_)
glob_body(pattern) ==
    IF pattern = <<>> THEN <<>>
    ELSE LET ch == Head(pattern) IN
         (CASE ch = "*" -> <<".", "*">>
            [] ch = "?" -> <<".">>
            [] ch = "." -> <<"\\", ".">>
            [] ch \in {"^", "$", "(", ")", "[", "]", "{", "}", "|", "+", "\\"} -> <<"\\", ch>>
            [] OTHER -> <<ch>>)
         \o glob_body(Tail(pattern))
glob_to_regex(pattern) ==
    [body |-> glob_body(pattern), anchored |-> TRUE, case_insensitive |-> FALSE]

\* The expression as the regex crate reads it: a sequence of atoms, each a
\* literal character (written as itself or after a backslash) or the dot, and
\* each with or without a star behind it.
RECURSIVE regex_parse(_)
regex_parse(body) ==
    IF body = <<>> THEN <<>>
    ELSE LET escaped == Head(body) = "\\"
             atom == IF escaped THEN [kind |-> "lit", ch |-> body[2]]
                     ELSE IF Head(body) = "." THEN [kind |-> "any", ch |-> "."]
                     ELSE [kind |-> "lit", ch |-> Head(body)]
             rest == IF escaped THEN Tail(Tail(body)) ELSE Tail(body)
             star == rest # <<>> /\ Head(rest) = "*"
         IN  <<[kind |-> atom.kind, ch |-> atom.ch, star |-> star]>>
             \o regex_parse(IF star THEN Tail(rest) ELSE rest)

RECURSIVE atoms_match(_, _, _)
atoms_match(atoms, ci, name) ==
    IF atoms = <<>> THEN name = <<>>
    ELSE LET a == Head(atoms)
             fits == /\ name # <<>>
                     /\ \/ a.kind = "any"
                        \/ a.ch = Head(name)
                        \/ ci /\ lower_char(a.ch) = lower_char(Head(name))
         IN  IF a.star
               THEN atoms_match(Tail(atoms), ci, name) \/ (fits /\ atoms_match(atoms, ci, Tail(name)))
               ELSE fits /\ atoms_match(Tail(atoms), ci, Tail(name))

\* Regex::is_match.  The one expression without anchors is ".*", which matches
\* every name.
regex_is_match(re, name) ==
    ~re.anchored \/ atoms_match(regex_parse(re.body), re.case_insensitive, name)

MaxGlobLen == 3
GlobInputs ==
    [fn : {"glob"}, pattern : StringsOver({"a", "B", ".", "*", "?"}, MaxGlobLen),
     name : StringsOver({"a", "b", "B", "."}, MaxGlobLen) \ {<<>>}]

MatchPattern ==
    /\ input.fn = "glob"
    /\ output = NoOutput
    /\ output' = [fn |-> "glob",
                  pattern_to_regex |-> regex_is_match(pattern_to_regex(input.pattern), input.name),
                  glob_to_regex |-> regex_is_match(glob_to_regex(input.pattern), input.name)]
    /\ UNCHANGED <<input, sysVars, ins, qpc, args, results, call, reply, sent, storeVars, buildVars, envVars,
                   monitorVars, persistVars>>

GlobSpec == FnInit(GlobInputs) /\ [][MatchPattern]_vars

\* The pattern matches the whole name, ignoring case, with * for any sequence of
\* characters, ? for one character and every other character for itself.
RECURSIVE GlobMatches(_, _)
GlobMatches(pattern, name) ==
    IF pattern = <<>> THEN name = <<>>
    ELSE IF Head(pattern) = "*"
      THEN GlobMatches(Tail(pattern), name)
           \/ (name # <<>> /\ GlobMatches(pattern, Tail(name)))
    ELSE /\ name # <<>>
         /\ Head(pattern) = "?" \/ lower_char(Head(pattern)) = lower_char(Head(name))
         /\ GlobMatches(Tail(pattern), Tail(name))

\* C22: a glob pattern matches a name exactly when the whole name matches it
\* case-insensitively, * standing for any sequence, ? for one character and every
\* other character, the dot included, for itself.
GlobMatchesWholeName ==
    output.fn = "glob" =>
        /\ output.pattern_to_regex = GlobMatches(input.pattern, input.name)
        /\ output.glob_to_regex = GlobMatches(input.pattern, input.name)

-----------------------------------------------------------------------------
(* Smart matching: FileIndex::search and matches_pattern (mcp_server.rs),  *)
(* and the pattern filter of fast_search.                                  *)

starts_with(str, prefix) ==
    Len(prefix) <= Len(str) /\ SubSeq(str, 1, Len(prefix)) = prefix

ends_with(str, suffix) ==
    Len(suffix) <= Len(str) /\ SubSeq(str, Len(str) - Len(suffix) + 1, Len(str)) = suffix

\* pattern.split('*'): the parts between the stars, one more than there are stars.
RECURSIVE split(_, _)
split(str, sep) ==
    IF \A j \in 1..Len(str) : str[j] # sep THEN <<str>>
    ELSE LET k == CHOOSE j \in 1..Len(str) :
                      str[j] = sep /\ \A h \in 1..(j - 1) : str[h] # sep
         IN  <<SubSeq(str, 1, k - 1)>> \o split(SubSeq(str, k + 1, Len(str)), sep)

matches_pattern(name, pattern) ==
    IF pattern = <<"*">> THEN TRUE
    ELSE LET parts == split(pattern, "*") IN
         IF str_contains(pattern, <<"*">>) /\ Len(parts) = 2
         THEN LET prefix == parts[1]
                  suffix == parts[2]
              IN  IF prefix = <<>> THEN ends_with(name, suffix)
                  ELSE IF suffix = <<>> THEN starts_with(name, prefix)
                  ELSE starts_with(name, prefix) /\ ends_with(name, suffix)
         ELSE str_contains(name, pattern)

SmartInputs ==
    [fn : {"smart"}, pattern : StringsOver({"a", "B", "*", "?"}, MaxGlobLen) \ {<<>>},
     name : StringsOver({"a", "b", "B"}, MaxGlobLen) \ {<<>>}]

\* The pattern test of FileIndex::search and the one of fast_search, on one name.
SmartMatch ==
    /\ input.fn = "smart"
    /\ output = NoOutput
    /\ output' = [fn |-> "smart",
                  matches_pattern |-> matches_pattern(lower_str(input.name), lower_str(input.pattern)),
                  fast_search |-> regex_is_match(pattern_to_regex(input.pattern), input.name)]
    /\ UNCHANGED <<input, sysVars, ins, qpc, args, results, call, reply, sent, storeVars, buildVars, envVars,
                   monitorVars, persistVars>>

SmartSpec == FnInit(SmartInputs) /\ [][SmartMatch]_vars

IsGlob(pattern) == str_contains(pattern, <<"*">>) \/ str_contains(pattern, <<"?">>)

SmartMatches(pattern, name) ==
    IF IsGlob(pattern) THEN GlobMatches(pattern, name)
    ELSE str_contains(lower_str(name), lower_str(pattern))

\* C23: in smart mode a pattern with '*' or '?' matches a name as a glob, whatever
\* the number of wildcards, and a pattern without them matches the names that
\* contain it ignoring case.
SmartIsGlobOrSubstring ==
    output.fn = "smart" =>
        /\ output.matches_pattern = SmartMatches(input.pattern, input.name)
        /\ output.fast_search = SmartMatches(input.pattern, input.name)

-----------------------------------------------------------------------------
(* The filters of fast_search: extensions, doc_type and the "type" of the  *)
(* tool's schema, on a store of files and directories.                     *)

RECURSIVE trim_start_matches(_, _)
trim_start_matches(str, c) ==
    IF str # <<>> /\ Head(str) = c THEN trim_start_matches(Tail(str), c) ELSE str

\* args["extensions"]: None without the argument, else the set of the strings of
\* the array, each without its leading dots and lower-cased.
parse_extensions(array) ==
    {{lower_str(trim_start_matches(s, ".")) : s \in arr} : arr \in array}

Range(f) == {f[x] : x \in DOMAIN f}

\* The entries a store can hold: two files with an extension, one without, and
\* a directory.
StoreEntries ==
    {[id |-> 1, name |-> "main.rs", path |-> "src\\main.rs", size |-> 1, is_directory |-> FALSE,
      extension |-> {<<"r", "s">>}],
     [id |-> 2, name |-> "notes.txt", path |-> "notes.txt", size |-> 2, is_directory |-> FALSE,
      extension |-> {<<"t", "x", "t">>}],
     [id |-> 3, name |-> "README", path |-> "README", size |-> 3, is_directory |-> FALSE,
      extension |-> {}],
     [id |-> 4, name |-> "src", path |-> "src", size |-> 0, is_directory |-> TRUE,
      extension |-> {}]}

Stores == {[i \in {e.id : e \in S} |-> CHOOSE e \in S : e.id = i] : S \in SUBSET StoreEntries \ {{}}}

\* The arguments as the caller writes them: the extensions array and doc_type
\* are optional, "type" is one of the schema's three values.
FilterInputs ==
    [fn : {"filter"}, files : Stores,
     extensions : {{}} \cup {{arr} : arr \in SUBSET {<<"r", "s">>, <<".", "T", "X", "T">>}},
     doc_type : {{}, {"code"}, {"TEXT"}, {"pdf"}, {"nothing"}},
     type : {"any", "file", "directory"}]

\* fast_search on the store with the arguments given, and the same call without
\* doc_type; "type" is in the schema of the tool and fast_search does not read it.
FilterSearch ==
    /\ input.fn = "filter"
    /\ output = NoOutput
    /\ LET doc_type == UNION {parse_document_type(s) : s \in input.doc_type}
           a == [DefaultArgs EXCEPT !.extensions = parse_extensions(input.extensions),
                                    !.doc_type = doc_type]
           alone == [a EXCEPT !.doc_type = {}]
       IN  \E o1, o2 \in HashMapIter(input.files) :
               output' = [fn |-> "filter",
                          results |-> Range(scan(input.files, o1, 1, a, <<>>)),
                          extensions_alone |-> Range(scan(input.files, o2, 1, alone, <<>>))]
    /\ UNCHANGED <<input, sysVars, ins, qpc, args, results, call, reply, sent, storeVars, buildVars, envVars,
                   monitorVars, persistVars>>

FilterSpec == FnInit(FilterInputs) /\ [][FilterSearch]_vars

\* The entries of the store whose extension is one of those asked for, compared
\* without the leading dot and ignoring case.
WithExtensions(F, arr) ==
    {i \in DOMAIN F : \E ext \in F[i].extension, s \in arr :
        lower_str(ext) = lower_str(IF s # <<>> /\ Head(s) = "." THEN Tail(s) ELSE s)}

\* C24: a query with extensions and doc_type returns what the same query returns
\* with the extensions alone; the extensions are compared ignoring case and
\* without their leading dot.
ExtensionsOverrideDocType ==
    (output.fn = "filter" /\ input.extensions # {} /\ input.doc_type # {}) =>
        /\ output.results = output.extensions_alone
        /\ \A arr \in input.extensions :
               arr # {} => output.extensions_alone = WithExtensions(input.files, arr)

\* C26: with type "file" no directory is returned, with "directory" only
\* directories, and with "any" both files and directories.
KindFilterSelects ==
    (output.fn = "filter" /\ input.extensions = {} /\ input.doc_type = {}) =>
        output.results =
            {i \in DOMAIN input.files :
                \/ input.type = "any"
                \/ input.type = "file" /\ ~input.files[i].is_directory
                \/ input.type = "directory" /\ input.files[i].is_directory}

-----------------------------------------------------------------------------
(* The direct search of ntfs_reader.rs: search_files_direct walks the      *)
(* directory tree of the volume with a path filter and prunes directories. *)

File(name) == [name |-> name, is_directory |-> FALSE, entries |-> <<>>]
Directory(name, entries) == [name |-> name, is_directory |-> TRUE, entries |-> entries]

\* The root directories of the volumes searched; a directory index lists its
\* entries in name order.
Volumes ==
    {Directory(<<>>, <<Directory(<<"a">>, <<Directory(<<"b">>, <<File(<<"f">>)>>), File(<<"f">>)>>),
                       Directory(<<"b">>, <<File(<<"f">>)>>),
                       File(<<"f">>)>>),
     Directory(<<>>, <<Directory(<<"B">>, <<File(<<"a">>), File(<<"f">>)>>),
                       File(<<"a", "b">>)>>),
     Directory(<<>>, <<Directory(<<"a">>, <<Directory(<<"a">>, <<File(<<"b">>)>>)>>),
                       File(<<"b">>)>>)}

\* path_could_contain_filter: with a separator in the filter, whether the filter
\* starts with the directory's path; without one, always.
path_could_contain_filter(current_path, filter) ==
    IF filter = <<>> THEN TRUE
    ELSE IF str_contains(filter, <<"\\">>) \/ str_contains(filter, <<"/">>)
      THEN starts_with(lower_str(filter), lower_str(current_path))
    ELSE TRUE

RECURSIVE search_directory_direct(_, _, _, _, _, _)
RECURSIVE search_entries(_, _, _, _, _, _, _)
\* search_directory_direct: the early exit, the pruning, then the loop.
search_directory_direct(directory, current_path, pattern_regex, path_filter, res, max_results) ==
    IF Len(res) >= max_results THEN res
    ELSE IF /\ path_filter # <<>>
            /\ ~str_contains(lower_str(current_path), path_filter)
            /\ ~path_could_contain_filter(current_path, path_filter)
      THEN res
    ELSE search_entries(directory.entries, 1, current_path, pattern_regex, path_filter, res,
                        max_results)

\* The loop over the entries of one directory, from entry k.
search_entries(entries, k, current_path, pattern_regex, path_filter, res, max_results) ==
    IF k > Len(entries) \/ Len(res) >= max_results THEN res
    ELSE LET entry == entries[k]
             file_name == entry.name
             full_path == IF current_path = <<>> THEN file_name
                          ELSE current_path \o <<"\\">> \o file_name
             pushed ==
                 IF /\ regex_is_match(pattern_regex, file_name)
                    /\ \/ path_filter = <<>>
                       \/ str_contains(lower_str(current_path), path_filter)
                 THEN Append(res, [name |-> file_name, path |-> current_path,
                                   full_path |-> full_path,
                                   is_directory |-> entry.is_directory])
                 ELSE res
             below ==
                 IF entry.is_directory /\ Len(pushed) < max_results
                 THEN search_directory_direct(entry, full_path, pattern_regex, path_filter,
                                              pushed, max_results)
                 ELSE pushed
         IN  search_entries(entries, k + 1, current_path, pattern_regex, path_filter, below,
                            max_results)

\* search_files_direct: the pattern becomes a regex, the filter is lower-cased,
\* and the walk starts at the root with the empty path.
search_files_direct(root, pattern, path_filter, max_results) ==
    search_directory_direct(root, <<>>, glob_to_regex(pattern), lower_str(path_filter), <<>>,
                            max_results)

DirectInputs ==
    [fn : {"direct"}, root : Volumes, pattern : {<<"*">>, <<"f">>, <<"b">>},
     path : {<<>>, <<"a">>, <<"b">>, <<"B">>, <<"a", "\\", "b">>, <<"b", "\\", "f">>,
             <<"a", "\\", "a">>},
     max_results : (0..MaxResults) \cup {DefaultMaxResults}]

SearchDirect ==
    /\ input.fn = "direct"
    /\ output = NoOutput
    /\ output' = [fn |-> "direct",
                  results |-> search_files_direct(input.root, input.pattern, input.path,
                                                  input.max_results)]
    /\ UNCHANGED <<input, sysVars, ins, qpc, args, results, call, reply, sent, storeVars, buildVars, envVars,
                   monitorVars, persistVars>>

DirectSpec == FnInit(DirectInputs) /\ [][SearchDirect]_vars

\* The full paths of the entries below a directory.
RECURSIVE FullPaths(_, _)
FullPaths(directory, current_path) ==
    UNION {LET full_path == IF current_path = <<>> THEN directory.entries[k].name
                            ELSE current_path \o <<"\\">> \o directory.entries[k].name
           IN  {[name |-> directory.entries[k].name, full_path |-> full_path]}
               \cup FullPaths(directory.entries[k], full_path)
           : k \in DOMAIN directory.entries}

\* The entries whose name matches the pattern and whose full path contains the
\* lower-cased filter.
InFilter(root, pattern, path_filter) ==
    {e.full_path : e \in {x \in FullPaths(root, <<>>) :
        /\ regex_is_match(glob_to_regex(pattern), x.name)
        /\ str_contains(lower_str(x.full_path), lower_str(path_filter))}}

Min(x, y) == IF x <= y THEN x ELSE y

\* C25: with a path filter the search returns, up to max_results, every entry
\* whose name matches the pattern and whose full path contains the lower-cased
\* filter, and no other entry; pruning loses none of them.
PathFilterFindsEveryEntry ==
    (output.fn = "direct" /\ input.path # <<>>) =>
        LET found == {output.results[k].full_path : k \in DOMAIN output.results}
            wanted == InFilter(input.root, input.pattern, input.path)
        IN  /\ found \subseteq wanted
            /\ Cardinality(found) = Min(input.max_results, Cardinality(wanted))

-----------------------------------------------------------------------------
(* load_cache: the extension of a loaded entry's name and its place in the *)
(* extension index (cache_persistence.rs).                                 *)

\* The position of the last c in str, or 0.
LastIndexOf(str, c) ==
    IF \E j \in 1..Len(str) : str[j] = c
    THEN CHOOSE j \in 1..Len(str) : str[j] = c /\ \A h \in (j + 1)..Len(str) : str[h] # c
    ELSE 0

\* Path::file_name of a name without separators: None for "." and "..".
file_name(name) == IF name \in {<<".">>, <<".", ".">>} THEN {} ELSE {name}

\* Path::extension: the part of the file name after its last dot; None when
\* there is no file name, no dot, or nothing before the last dot.
name_extension(name) ==
    UNION {LET k == LastIndexOf(file, ".") IN
               IF k = 0 \/ k = 1 THEN {} ELSE {SubSeq(file, k + 1, Len(file))}
           : file \in file_name(name)}

LoadNames == [fn : {"load"}, name : StringsOver({"a", "B", "c", "."}, MaxGlobLen) \ {<<>>}]

\* One pass of the loop of load_cache for the entry with id 1 and the name
\* given: the extension, lower-cased, and the extension index after the pass.
LoadEntry ==
    /\ input.fn = "load"
    /\ output = NoOutput
    /\ LET exts == {lower_str(ext) : ext \in name_extension(input.name)} IN
           output' = [fn |-> "load",
                      extension |-> exts,
                      extension_index |-> [ext \in {e \in exts : e # <<>>} |-> <<1>>]]
    /\ UNCHANGED <<input, sysVars, ins, qpc, args, results, call, reply, sent, storeVars, buildVars, envVars,
                   monitorVars, persistVars>>

LoadSpec == FnInit(LoadNames) /\ [][LoadEntry]_vars

\* The last '.'-delimited suffix of the name, lower-cased; absent when the name
\* has no dot or ends with one.
LastSuffix(name) ==
    LET k == LastIndexOf(name, ".") IN
    IF k = 0 \/ k = Len(name) THEN {} ELSE {lower_str(SubSeq(name, k + 1, Len(name)))}

\* C27: the extension index of a loaded entry has the entry under the lower-cased
\* last '.'-delimited suffix of its name, and has nothing for a name without a
\* dot or ending with a dot.
ExtensionIsLastSuffix ==
    output.fn = "load" =>
        output.extension_index = [ext \in LastSuffix(input.name) |-> <<1>>]

-----------------------------------------------------------------------------
(* MftCache::clear and MftCache::stats.                                    *)

\* The steps of clear() by thread w, and the one it returns with.
InClear(w) == rpc[w] \in {"clear_files", "clear_ext", "clear_name", "clear_path"}
ClearReturns(w) == rpc[w] = "clear_path" /\ rpc'[w] = "read_mft"

\* C29: when clear() returns, the primary table and the three indexes are empty
\* and files_processed and memory_usage are 0, whatever the store held; clear()
\* leaves the configuration as it was.
ClearEmptiesStore ==
    [][/\ ClearReturns(0) =>
            /\ files' = EmptyMap
            /\ extension_index' = EmptyMap
            /\ name_index' = EmptyMap
            /\ path_index' = EmptyMap
            /\ files_processed' = 0
            /\ memory_usage' = 0
       /\ InClear(0) => config' = config]_vars

\* clear() has just returned, on a volume that has files.
ClearReturned ==
    /\ rpc[0] = "read_mft"
    /\ fs # {}
    /\ files = EmptyMap
    /\ name_index = EmptyMap

\* stats(): the number of entries under the read guard of files, the two
\* counters, and last_processed_usn, for which the code writes the constant 0.
Stats ==
    /\ output = NoOutput
    /\ output' = [fn |-> "stats",
                  file_count |-> Cardinality(DOMAIN files),
                  files_processed |-> files_processed,
                  memory_usage_bytes |-> memory_usage,
                  last_processed_usn |-> 0]
    /\ UNCHANGED <<input, sysVars, ins, qpc, args, results, call, reply, sent, storeVars, buildVars, envVars,
                   monitorVars, persistVars>>

\* The watcher and its rebuilds run until stats() is called.
StatsNext ==
    \/ output = NoOutput /\ WatchNext
    \/ Stats

StatsSpec == Init /\ [][StatsNext]_vars

\* The USN up to which the cache's watcher has applied the journal.
LastAppliedUsn == IF thread_handle = None THEN 0 ELSE last_usn[thread_handle]

\* C28: stats() reports the store as it is: the number of entries, the processed
\* counter, a memory usage that is 0 for an empty store and positive for any
\* other, and the last USN the watcher applied.
StatsReportsStore ==
    output.fn = "stats" =>
        /\ output.file_count = Cardinality(DOMAIN files)
        /\ output.files_processed = files_processed
        /\ output.memory_usage_bytes = 0 <=> files = EmptyMap
        /\ output.last_processed_usn = LastAppliedUsn

-----------------------------------------------------------------------------
(* Threads that insert into files under its write lock (the store's        *)
(* RwLock, mft_cache.rs; the threads of test_cache_thread_safety).         *)

\* A just constructed cache: the four maps are empty.
InsertInit ==
    /\ config = [DefaultConfig EXCEPT !.persistence_enabled = FALSE]
    /\ opc = "opened"
    /\ fs = {1}
    /\ journal = [ok |-> TRUE, id |-> 1, next |-> 1]
    /\ mft_read_usn = journal.next
    /\ unwatched = FALSE
    /\ files = EmptyMap
    /\ extension_index = EmptyMap
    /\ name_index = EmptyMap
    /\ path_index = EmptyMap
    /\ files_processed = 0
    /\ memory_usage = 0
    /\ InitRest

\* The entry thread t inserts: file_id = i + 1 for the i-th thread.
TestEntry(t) ==
    [id |-> t, name |-> <<"test", ToString(t - 1), ".txt">>,
     path |-> <<"C:\\", "test", ToString(t - 1), ".txt">>, size |-> 1024, is_directory |-> FALSE]

WriteHeld(t) == ins[t].pc \in {"locked", "writing", "inserted"}

insertVars == <<input, sysVars, qpc, args, results, call, reply, sent, output, extension_index, name_index,
                path_index, files_processed, memory_usage, buildVars, envVars, monitorVars,
                persistVars>>

\* thread::spawn, for the threads in the order of the loop.
Spawn(t) ==
    /\ ins[t].pc = "unborn"
    /\ \A u \in Inserters : u < t => ins[u].pc # "unborn"
    /\ ins' = [ins EXCEPT ![t].pc = "spawned"]
    /\ UNCHANGED <<files, insertVars>>

\* A write() that does not wait for the other holders of the lock.
WriteUnguarded(t) ==
    /\ ins[t].pc = "spawned"
    /\ ins' = [ins EXCEPT ![t].pc = "locked"]
    /\ UNCHANGED <<files, insertVars>>

\* cache.files.write(): waits until no thread holds the lock.
Write(t) ==
    /\ ins[t].pc = "spawned"
    /\ ~FilesReadHeld
    /\ \A u \in Inserters : ~WriteHeld(u)
    /\ ins' = [ins EXCEPT ![t].pc = "locked"]
    /\ UNCHANGED <<files, insertVars>>

\* files.insert(file_id, entry) reads the table ...
InsertRead(t) ==
    /\ ins[t].pc = "locked"
    /\ ins' = [ins EXCEPT ![t] = [pc |-> "writing", files |-> files]]
    /\ UNCHANGED <<files, insertVars>>

\* ... and writes it back with the entry under file_id.
InsertWrite(t) ==
    /\ ins[t].pc = "writing"
    /\ files' = extend(ins[t].files, [i \in {t} |-> TestEntry(t)])
    /\ ins' = [ins EXCEPT ![t] = [pc |-> "inserted", files |-> EmptyMap]]
    /\ UNCHANGED insertVars

\* The guard is dropped at the end of the block, and the thread signals.
Release(t) ==
    /\ ins[t].pc = "inserted"
    /\ ins' = [ins EXCEPT ![t].pc = "done"]
    /\ UNCHANGED <<files, insertVars>>

InsertNext ==
    \E t \in Inserters :
        \/ Spawn(t)
        \/ Write(t)
        \/ InsertRead(t)
        \/ InsertWrite(t)
        \/ Release(t)

InsertSpec == InsertInit /\ [][InsertNext]_vars

-----------------------------------------------------------------------------
(* SearchEngine::get_or_create_cache: the registry of caches, one RwLock   *)
(* around the map from drive to cache, and double-checked creation.        *)

\* Every variable of the cache of one drive, of the searches and of the tests.
oldVars == <<envVars, storeVars, buildVars, monitorVars, persistVars, qpc, args, results, call,
             reply, sent, ins, output, input>>
exceptEngine == <<oldVars, autosave, monitoring, ipc, service, stdio>>

RegistryWriteHeld(t) == engine.qry[t].pc \in {"double_check", "create", "insert"}

\* return Ok(cache) or Err(..) from get_or_create_cache, dropping the guard held.
Returns(t, result) == [engine EXCEPT !.qry[t].pc = "done", !.qry[t].result = result]
Found(id) == [kind |-> "ok", cache |-> id]
Failed == [kind |-> "error"]

\* fast_search is called with a drive.
CallSearch(t) ==
    /\ engine.qry[t].pc \in {"idle", "done"}
    /\ \E drive \in Drives :
          engine' = [engine EXCEPT !.qry[t] = [pc |-> "read", drive |-> drive, result |-> NoResult]]
    /\ UNCHANGED exceptEngine

\* The read guard: the cache of the drive if the map has one; the guard is
\* dropped either way.
ReadCheck(t) ==
    /\ engine.qry[t].pc = "read"
    /\ \A u \in Workers : ~RegistryWriteHeld(u)
    /\ LET drive == engine.qry[t].drive IN
       engine' = IF drive \in DOMAIN engine.mft_cache
                 THEN Returns(t, Found(engine.mft_cache[drive]))
                 ELSE [engine EXCEPT !.qry[t].pc = "write"]
    /\ UNCHANGED exceptEngine

\* self.mft_cache.write(): waits for the other holders.
WriteLock(t) ==
    /\ engine.qry[t].pc = "write"
    /\ \A u \in Workers : ~RegistryWriteHeld(u)
    /\ engine' = [engine EXCEPT !.qry[t].pc = "double_check"]
    /\ UNCHANGED exceptEngine

\* A second check that finds nothing.
DoubleCheckSkipped(t) ==
    /\ engine.qry[t].pc = "double_check"
    /\ engine' = [engine EXCEPT !.qry[t].pc = "create"]
    /\ UNCHANGED exceptEngine

\* The second check, under the write guard.
DoubleCheck(t) ==
    /\ engine.qry[t].pc = "double_check"
    /\ LET drive == engine.qry[t].drive IN
       engine' = IF drive \in DOMAIN engine.mft_cache
                 THEN Returns(t, Found(engine.mft_cache[drive]))
                 ELSE [engine EXCEPT !.qry[t].pc = "create"]
    /\ UNCHANGED exceptEngine

\* A failed MftCache::new that registers an empty cache all the same.
CreateRegistersFailure(t) ==
    /\ engine.qry[t].pc = "create"
    /\ LET drive == engine.qry[t].drive
           id == Len(engine.caches) + 1
       IN  engine' = [Returns(t, Found(id)) EXCEPT
                          !.caches = Append(engine.caches, drive),
                          !.mft_cache = extend(engine.mft_cache, [d \in {drive} |-> id])]
    /\ UNCHANGED exceptEngine

\* MftCache::new(drive): with the default configuration it builds rayon's global
\* thread pool, which fails when the pool exists; then the volume is opened and
\* read, which can fail.  An Err returns at once, with nothing registered.
Create(t) ==
    /\ engine.qry[t].pc = "create"
    /\ \E volume_ok \in BOOLEAN :
          IF engine.rayon
          THEN engine' = Returns(t, Failed)
          ELSE IF ~volume_ok
          THEN engine' = [Returns(t, Failed) EXCEPT !.rayon = TRUE]
          ELSE engine' = [engine EXCEPT !.rayon = TRUE,
                                        !.caches = Append(engine.caches, engine.qry[t].drive),
                                        !.qry[t].pc = "insert"]
    /\ UNCHANGED exceptEngine

\* cache_map.insert(drive, ..) and return Ok(mft_cache).
Insert(t) ==
    /\ engine.qry[t].pc = "insert"
    /\ LET drive == engine.qry[t].drive
           id == Len(engine.caches)
       IN  engine' = [Returns(t, Found(id)) EXCEPT
                          !.mft_cache = extend(engine.mft_cache, [d \in {drive} |-> id])]
    /\ UNCHANGED exceptEngine

EngineNext ==
    \E t \in Workers :
        \/ CallSearch(t)
        \/ ReadCheck(t)
        \/ WriteLock(t)
        \/ DoubleCheck(t)
        \/ Create(t)
        \/ Insert(t)

EngineSpec == Init /\ [][EngineNext]_vars

\* C31: each drive has at most one cache ever created for it, every query that
\* returns a cache returns the one registered for its drive, a query for a
\* registered drive returns that cache, and the cache registered for a drive is
\* never replaced.
OneCachePerDrive ==
    /\ [](/\ \A i, j \in DOMAIN engine.caches :
                 engine.caches[i] = engine.caches[j] => i = j
          /\ \A t \in Workers :
                 (engine.qry[t].pc = "done" /\ engine.qry[t].result.kind = "ok") =>
                     /\ engine.qry[t].drive \in DOMAIN engine.mft_cache
                     /\ engine.qry[t].result.cache = engine.mft_cache[engine.qry[t].drive])
    /\ [][/\ \A d \in DOMAIN engine.mft_cache :
                 d \in DOMAIN engine.mft_cache' /\ engine.mft_cache'[d] = engine.mft_cache[d]
          /\ \A t \in Workers :
                 (/\ engine.qry[t].pc # "done"
                  /\ engine.qry'[t].pc = "done"
                  /\ engine.qry[t].drive \in DOMAIN engine.mft_cache) =>
                     engine.qry'[t].result = Found(engine.mft_cache[engine.qry[t].drive])]_vars

\* Two queries for the same drive missed it under the read guard; one has created
\* the cache and the other finds it in its second check.
SecondCheckFinds ==
    \E t, u \in Workers :
        /\ t # u
        /\ engine.qry[t].drive = engine.qry[u].drive
        /\ engine.qry[u].pc = "double_check"
        /\ engine.qry[u].drive \in DOMAIN engine.mft_cache
        /\ engine.qry[t].pc = "done"
        /\ engine.qry[t].result.kind = "ok"

\* C32: a query whose open of the drive failed returns an error and no cache to
\* search, and the failed open registers nothing: the registry is as it was.
FailedOpenRegistersNothing ==
    [][\A t \in Workers :
          (engine.qry[t].pc = "create" /\ engine.qry'[t].pc # "insert"
              /\ engine.qry'[t].pc # "create") =>
              /\ engine.qry'[t].pc = "done"
              /\ engine.qry'[t].result = Failed
              /\ engine.mft_cache' = engine.mft_cache
              /\ engine.qry[t].drive \notin DOMAIN engine.mft_cache']_vars

\* A query has returned the error of a failed open; nothing is registered.
OpenFailed ==
    \E t \in Workers :
        /\ engine.qry[t].pc = "done"
        /\ engine.qry[t].result = Failed
        /\ engine.mft_cache = EmptyMap

-----------------------------------------------------------------------------
(* MftCache's auto-save thread: start_auto_save, its loop, and the end of  *)
(* the cache's life.                                                       *)

\* Everything but autosave, rpc, clock and dir.
autoRest == <<envVars, storeVars, monitorVars, qpc, args, results, call, reply, sent, ins, output,
              engine, monitoring, ipc, service, stdio, mft, oom, stamp, config, opc, loaded,
              saved, crashes, input>>

\* The data file and the metadata file of a version that find_cache_files
\* accepts: <stem>.meta.meta next to <stem>.meta (see ScanCacheDir).
LoadableDir ==
    Put(Put(EmptyMap, meta_file(0), [entries |-> [i \in {1} |-> FileEntry(i)], file_count |-> 1,
                                      complete |-> TRUE]),
        meta_file(0) \o <<".meta">>, [entries |-> EmptyMap, file_count |-> 1, complete |-> TRUE])

\* Before the service starts, the cache directory is given the two files of
\* such a version (save_cache itself writes none that the scan accepts).
PlaceVersion ==
    /\ opc = "closed"
    /\ dir = EmptyMap
    /\ dir' = LoadableDir
    /\ UNCHANGED <<autoRest, autosave, rpc, clock>>

\* The calls of start_auto_save one with_config makes: load_from_disk's call
\* on the loaded cache and with_config's own call after it, or only the latter.
StartsOfOpen ==
    IF ~config.persistence_enabled THEN 0 ELSE IF loaded.found THEN 2 ELSE 1

\* start_auto_save: a thread is spawned and its handle replaces the stored one.
StartAutoSave ==
    /\ opc = "opened"
    /\ rpc[0] = "none"
    /\ autosave.started < StartsOfOpen
    /\ \E t \in Savers :
          /\ autosave.pc[t] = "unborn"
          /\ \A u \in Savers : u < t => autosave.pc[u] # "unborn"
          /\ autosave' = [autosave EXCEPT !.pc[t] = "check", !.save_thread_handle = {t},
                                          !.started = @ + 1]
    /\ UNCHANGED <<autoRest, rpc, clock, dir>>

\* while !shutdown_flag.load(SeqCst)
AutoSaveCheck(t) ==
    /\ autosave.pc[t] = "check"
    /\ autosave' = [autosave EXCEPT !.pc[t] = IF autosave.shutdown_flag THEN "exited" ELSE "sleep"]
    /\ UNCHANGED <<autoRest, rpc, clock, dir>>

\* thread::sleep(save_interval), at least a second, and the call of save_to_disk().
AutoSaveSleep(t) ==
    /\ autosave.pc[t] = "sleep"
    /\ clock < MaxTime
    /\ clock' \in (clock + 1)..MaxTime
    /\ rpc' = [rpc EXCEPT ![t] = IF config.persistence_enabled THEN "save_begin" ELSE "done"]
    /\ autosave' = [autosave EXCEPT !.pc[t] = "save"]
    /\ UNCHANGED <<autoRest, dir>>

\* save_to_disk() has returned, Ok or Err; the loop goes on.
SaveDone(t) ==
    /\ autosave.pc[t] = "save"
    /\ rpc[t] = "done"
    /\ rpc' = [rpc EXCEPT ![t] = "none"]
    /\ autosave' = [autosave EXCEPT !.pc[t] = "check"]
    /\ UNCHANGED <<autoRest, clock, dir>>

\* The cache is closed: stop_monitoring() finds no monitor and no volume handle,
\* and the MftCache is dropped. Neither stores to shutdown_flag, and dropping
\* the JoinHandle detaches the thread.
Close ==
    /\ opc = "opened"
    /\ autosave.started = StartsOfOpen
    /\ ~autosave.closed
    /\ autosave' = [autosave EXCEPT !.closed = TRUE, !.save_thread_handle = {}]
    /\ UNCHANGED <<autoRest, rpc, clock, dir>>

AutoNext ==
    \/ PlaceVersion
    \/ Open
    \/ RebuildStep(0)
    \/ SaveStep(0)
    \/ OpenReturn
    \/ StartAutoSave
    \/ \E t \in Savers : AutoSaveCheck(t) \/ AutoSaveSleep(t) \/ SaveStep(t) \/ SaveDone(t)
    \/ Close

AutoSpec == PersistInit /\ [][AutoNext]_vars

\* The scheduler lets every auto-save thread that can take a step take one.
AutoFair == AutoSpec /\ \A t \in Savers : WF_vars(AutoSaveCheck(t) \/ AutoSaveSleep(t) \/ SaveStep(t) \/ SaveDone(t))

\* The store is what the last save that returned Ok wrote.
Unmutated == saved.found /\ saved.files = files

\* The auto-save threads that have been spawned and have not ended.
LiveSavers == {t \in Savers : autosave.pc[t] \notin {"unborn", "exited"}}

\* C33: the auto-save timer saves only if the store was mutated since the
\* previous save: while the store is what the previous save wrote, a tick of
\* an auto-save thread adds no version to the cache directory.
TickSavesOnlyAfterMutation ==
    [][\A t \in Savers :
          (autosave.pc[t] = "save" /\ rpc'[t] # rpc[t] /\ Unmutated)
             => Versions(dir') \subseteq Versions(dir)]_vars

CloseEndsAutoSave ==
    /\ [](autosave.closed => autosave.shutdown_flag)
    /\ [][autosave.closed => Versions(dir') \subseteq Versions(dir)]_vars
    /\ (autosave.closed ~> LiveSavers = {})

-----------------------------------------------------------------------------
(* MftCache::start_monitoring and stop_monitoring, called by several       *)
(* threads on one cache.                                                   *)

exceptMonitoring == <<oldVars, engine, autosave, ipc, service, stdio>>

is_null(handle) == handle = NULL

\* A call returns: the caller is idle again and keeps the result.
MonitoringReturns(c, result) ==
    [monitoring EXCEPT !.call[c].pc = "idle", !.call[c].result = result]

\* UsnJournalMonitor::stop, also run by Drop: running is cleared and the
\* thread is joined; a monitor that is not running is left as it is.
StopMonitors(monitors, S) ==
    [m \in Handles |->
        IF m \in S /\ monitors[m].thread = "alive"
          THEN [monitors[m] EXCEPT !.thread = "ended"] ELSE monitors[m]]

\* A thread enters start_monitoring(); it is the n-th such call.
CallStartMonitoring(c) ==
    /\ monitoring.call[c].pc = "idle"
    /\ monitoring.starts < MaxStarts
    /\ monitoring' = [monitoring EXCEPT !.starts = @ + 1,
                         !.call[c] = [pc |-> "check", n |-> monitoring.starts + 1,
                                      handle |-> NULL, result |-> "none"]]
    /\ UNCHANGED exceptMonitoring

\* if self.usn_monitor.lock().is_some() { return Ok(()) }
StartCheck(c) ==
    /\ monitoring.call[c].pc = "check"
    /\ monitoring' = IF monitoring.usn_monitor # {}
                       THEN MonitoringReturns(c, "ok")
                       ELSE [monitoring EXCEPT !.call[c].pc = "open"]
    /\ UNCHANGED exceptMonitoring

\* CreateFileW, which succeeds or fails, and the test handle.is_null().
OpenVolume(c) ==
    /\ monitoring.call[c].pc = "open"
    /\ \E opened \in BOOLEAN :
          LET handle == IF opened THEN monitoring.call[c].n ELSE INVALID_HANDLE_VALUE IN
          monitoring' =
             IF is_null(handle)
               THEN MonitoringReturns(c, "error")
               ELSE [monitoring EXCEPT
                        !.handles = [h \in Handles |-> IF h = handle THEN "open" ELSE @[h]],
                        !.call[c].handle = handle, !.call[c].pc = "store_handle"]
    /\ UNCHANGED exceptMonitoring

\* *self.volume_handle.lock() = Some(handle)
StoreHandle(c) ==
    /\ monitoring.call[c].pc = "store_handle"
    /\ monitoring' = [monitoring EXCEPT !.volume_handle = {monitoring.call[c].handle},
                                        !.call[c].pc = "start"]
    /\ UNCHANGED exceptMonitoring

\* UsnJournalMonitor::new(drive, handle)? and usn_monitor.start(callback)?:
\* neither fails, and start spawns the watcher thread.
StartMonitor(c) ==
    /\ monitoring.call[c].pc = "start"
    /\ monitoring' = [monitoring EXCEPT
                         !.monitors[monitoring.call[c].n] =
                             [thread |-> "alive", volume_handle |-> monitoring.call[c].handle],
                         !.call[c].pc = "store_monitor"]
    /\ UNCHANGED exceptMonitoring

\* *self.usn_monitor.lock() = Some(usn_monitor): a monitor stored before is
\* dropped, and its Drop stops it. Ok(()).
StoreMonitor(c) ==
    /\ monitoring.call[c].pc = "store_monitor"
    /\ monitoring' = [MonitoringReturns(c, "ok") EXCEPT
                         !.usn_monitor = {monitoring.call[c].n},
                         !.monitors = StopMonitors(@, monitoring.usn_monitor)]
    /\ UNCHANGED exceptMonitoring

\* A thread enters stop_monitoring().
CallStopMonitoring(c) ==
    /\ monitoring.call[c].pc = "idle"
    /\ monitoring' = [monitoring EXCEPT
                         !.call[c] = [pc |-> "take_monitor", n |-> 0, handle |-> NULL,
                                      result |-> "none"]]
    /\ UNCHANGED exceptMonitoring

\* if let Some(mut monitor) = self.usn_monitor.lock().take() { monitor.stop()? }
TakeMonitor(c) ==
    /\ monitoring.call[c].pc = "take_monitor"
    /\ monitoring' = [monitoring EXCEPT
                         !.usn_monitor = {},
                         !.monitors = StopMonitors(@, monitoring.usn_monitor),
                         !.call[c].pc = "take_handle"]
    /\ UNCHANGED exceptMonitoring

\* if let Some(handle) = self.volume_handle.lock().take() { CloseHandle }, Ok(()).
TakeHandle(c) ==
    /\ monitoring.call[c].pc = "take_handle"
    /\ monitoring' = [MonitoringReturns(c, "ok") EXCEPT
                         !.volume_handle = {},
                         !.handles = [h \in Handles |->
                             IF h \in monitoring.volume_handle /\ ~is_null(h)
                               THEN (IF @[h] = "open" THEN "closed" ELSE "closed_twice")
                               ELSE @[h]]]
    /\ UNCHANGED exceptMonitoring

MonitoringNext ==
    \E c \in MonitorCallers :
        \/ CallStartMonitoring(c) \/ StartCheck(c) \/ OpenVolume(c) \/ StoreHandle(c)
        \/ StartMonitor(c) \/ StoreMonitor(c)
        \/ CallStopMonitoring(c) \/ TakeMonitor(c) \/ TakeHandle(c)

MonitoringSpec == Init /\ [][MonitoringNext]_vars

\* The watcher threads that run.
Watchers == {m \in Handles : monitoring.monitors[m].thread = "alive"}

\* No call is in progress and the cache holds neither a monitor nor a handle.
MonitoringIdle ==
    /\ \A c \in MonitorCallers : monitoring.call[c].pc = "idle"
    /\ monitoring.usn_monitor = {}
    /\ monitoring.volume_handle = {}

\* C37: under any interleaving of start_monitoring and stop_monitoring at most
\* one watcher thread runs; every volume handle that was opened is closed
\* exactly once (never twice, and none is left open once the calls are over and
\* the cache holds no monitor and no handle); when stop_monitoring returns no
\* watcher thread runs; and a start_monitoring whose CreateFileW failed returns
\* an error and starts no thread.
MonitoringIsExclusive ==
    /\ [](/\ Cardinality(Watchers) <= 1
          /\ \A h \in Handles : monitoring.handles[h] # "closed_twice"
          /\ MonitoringIdle => \A h \in Handles : monitoring.handles[h] # "open"
          /\ \A m \in Handles : monitoring.monitors[m].volume_handle # INVALID_HANDLE_VALUE)
    /\ [][\A c \in MonitorCallers :
             /\ (monitoring.call[c].pc = "take_handle" /\ monitoring'.call[c].pc = "idle")
                   => \A m \in Handles : monitoring'.monitors[m].thread # "alive"
             /\ (monitoring.call[c].handle = INVALID_HANDLE_VALUE
                    /\ monitoring.call[c].pc # "idle" /\ monitoring'.call[c].pc = "idle")
                   => monitoring'.call[c].result = "error"]_vars

-----------------------------------------------------------------------------
(* The bridge's IpcClient (ipc_client.rs, and ipc_client_new.rs with its   *)
(* timeouts) on one named pipe, and the service end of the pipe.           *)

exceptIpc == <<oldVars, engine, autosave, monitoring, service, stdio>>

\* The two implementations of IpcClient in the bridge.
IpcImpls == {"ipc_client", "ipc_client_new"}

\* send_request returns: Ok(response), or an error.
IpcReturns(kind, id) == [ipc EXCEPT !.pc = "idle", !.result = [kind |-> kind, id |-> id]]

\* IpcClient::new: the pipe is opened, or it is not there. ipc_client.rs then
\* fails with ServiceUnavailable (no client exists, IpcClient::disconnected()
\* stands in), ipc_client_new.rs returns a client without a connection.
Connect ==
    /\ ipc.impl = "none"
    /\ \E impl \in IpcImpls, opened \in BOOLEAN :
          ipc' = [ipc EXCEPT !.impl = impl, !.client = opened]
    /\ UNCHANGED exceptIpc

\* send_request up to the end of its two write_all calls: without a client
\* it returns at once; on a broken pipe the write fails.
SendRequest ==
    /\ ipc.impl # "none"
    /\ ipc.pc = "idle"
    /\ ipc.sent < MaxRequests
    /\ LET id == ipc.sent + 1
           called == [ipc EXCEPT !.sent = id, !.req = id, !.got = NoFrame] IN
       ipc' = IF ~ipc.client
                THEN [called EXCEPT !.result = [kind |-> "unavailable", id |-> 0]]
                ELSE IF ipc.broken
                  THEN [called EXCEPT !.result = [kind |-> "io", id |-> 0]]
                  ELSE [called EXCEPT !.pc = "read_len", !.result = NoReply,
                                      !.to_service = Append(@, id)]
    /\ UNCHANGED exceptIpc

\* client.read_exact(&mut len_buf): the next four bytes of the pipe.
ReadLen ==
    /\ ipc.pc = "read_len"
    /\ ipc.to_client # <<>>
    /\ ipc' = [ipc EXCEPT !.got = Head(ipc.to_client), !.to_client = Tail(@),
                          !.pc = "read_data"]
    /\ UNCHANGED exceptIpc

\* client.read_exact(&mut response_buf) and bincode::deserialize: Ok with the
\* response whose bytes were read; bytes that are not one response's length
\* and body do not make the response of any request.
ReadData ==
    /\ ipc.pc = "read_data"
    /\ ipc.to_client # <<>>
    /\ LET body == Head(ipc.to_client) IN
       ipc' = [(IF ipc.got.part = "len" /\ body.part = "data" /\ body.id = ipc.got.id
                  THEN IpcReturns("ok", body.id)
                  ELSE IpcReturns("garbage", 0))
               EXCEPT !.to_client = Tail(@)]
    /\ UNCHANGED exceptIpc

\* A read_exact on the broken pipe fails: Err(Io).
ReadFails ==
    /\ ipc.pc \in {"read_len", "read_data"}
    /\ ipc.broken
    /\ ipc.to_client = <<>>
    /\ ipc' = IpcReturns("io", 0)
    /\ UNCHANGED exceptIpc

\* time::timeout(READ_TIMEOUT, read_exact) of ipc_client_new.rs: no byte came
\* for 30 seconds, Err(Timeout). ipc_client.rs awaits read_exact itself.
Timeout ==
    /\ ipc.impl = "ipc_client_new"
    /\ ipc.pc \in {"read_len", "read_data"}
    /\ ipc.to_client = <<>>
    /\ ~ipc.broken
    /\ ipc' = IpcReturns("timeout", 0)
    /\ UNCHANGED exceptIpc

\* The service end answers the oldest request: first the length, then the body.
ServiceAnswers ==
    /\ ipc.to_service # <<>>
    /\ ~ipc.broken
    /\ ipc' = IF ~ipc.half
                THEN [ipc EXCEPT !.half = TRUE,
                         !.to_client = Append(@, [part |-> "len", id |-> Head(ipc.to_service)])]
                ELSE [ipc EXCEPT !.half = FALSE, !.to_service = Tail(@),
                         !.to_client = Append(@, [part |-> "data", id |-> Head(ipc.to_service)])]
    /\ UNCHANGED exceptIpc

\* The service end of the pipe is closed.
PipeBreaks ==
    /\ ipc.client
    /\ ~ipc.broken
    /\ ipc' = [ipc EXCEPT !.broken = TRUE]
    /\ UNCHANGED exceptIpc

ClientStep == SendRequest \/ ReadLen \/ ReadData \/ ReadFails \/ Timeout

IpcNext == Connect \/ ClientStep \/ ServiceAnswers \/ PipeBreaks

IpcSpec == Init /\ [][IpcNext]_vars

\* The bridge's task is scheduled and its timers fire; nothing makes the
\* service answer.
IpcFair == IpcSpec /\ WF_vars(ReadLen \/ ReadData \/ ReadFails \/ Timeout)

\* C34: every send_request ends, with a Timeout error if the service never
\* answers; and on a client without a connection it returns an error at once
\* and leaves the pipe as it is.
EveryRequestEnds ==
    /\ (ipc.pc # "idle") ~> (ipc.pc = "idle")
    /\ [][(~ipc.client /\ ipc'.sent # ipc.sent)
             => /\ ipc'.pc = "idle"
                /\ ipc'.result.kind = "unavailable"
                /\ ipc'.to_service = ipc.to_service
                /\ ipc'.to_client = ipc.to_client]_vars

\* C38: what send_request returns as Ok is the service's response to the
\* request of that call, also after earlier calls that timed out or failed
\* while the response was read.
ResponseMatchesRequest ==
    [][(ipc.pc # "idle" /\ ipc'.pc = "idle" /\ ipc'.result.kind \in {"ok", "garbage"})
          => ipc'.result = [kind |-> "ok", id |-> ipc.req]]_vars

-----------------------------------------------------------------------------
(* The service's request loop: run_mcp_server, and the handle_request it   *)
(* calls on its server.                                                    *)

exceptService == <<oldVars, engine, autosave, monitoring, ipc, stdio>>

\* The lines of stdin: blank, not JSON, or a JSON object with or without a
\* "method" string and, for tools/call, a params.name.
Methods == {"", "initialize", "tools/list", "tools/call", "bogus/method"}
Tools == {"fast_search", "bogus_tool"}
BlankLine == [blank |-> TRUE, json |-> FALSE, method |-> "", name |-> ""]
MalformedLine == [blank |-> FALSE, json |-> FALSE, method |-> "", name |-> ""]
RequestLine(method, name) == [blank |-> FALSE, json |-> TRUE, method |-> method, name |-> name]
ServiceLines ==
    {BlankLine, MalformedLine}
      \cup {RequestLine(method, "") : method \in Methods \ {"tools/call"}}
      \cup {RequestLine("tools/call", name) : name \in Tools}

\* The two results of a handler: Ok(value) and Err.
Ok(value) == [ok |-> TRUE, value |-> value]
Err == [ok |-> FALSE, value |-> "error"]

\* McpServer::handle_request of mcp_server.rs.
McpServer_handle_request(request) ==
    IF request.method = "" THEN Err
    ELSE CASE request.method = "initialize" -> Ok("capabilities")
           [] request.method = "tools/list" -> Ok("tools")
           [] OTHER -> Err

\* SearchEngine::handle_tool_call; tool_ok: the tool itself returned Ok.
handle_tool_call(request, tool_ok) ==
    CASE request.name = "fast_search" -> (IF tool_ok THEN Ok("fast_search") ELSE Err)
      [] OTHER -> Ok("-32602")

\* SearchEngine::handle_request of search_engine.rs.
SearchEngine_handle_request(request, tool_ok) ==
    CASE request.method = "initialize" -> Ok("capabilities")
      [] request.method = "tools/list" -> Ok("tools")
      [] request.method = "tools/call" -> handle_tool_call(request, tool_ok)
      [] OTHER -> Ok("-32601")

\* McpServer::new()?: the server whose handle_request the loop calls.
StartServer ==
    /\ service.pc = "start"
    /\ \E server \in {"McpServer", "SearchEngine"} :
          service' = [service EXCEPT !.pc = "serving", !.server = server]
    /\ UNCHANGED exceptService

\* One turn of `for line in stdin.lock().lines()`.
Serve ==
    /\ service.pc = "serving"
    /\ Len(service.lines) < MaxLines
    /\ \E line \in ServiceLines, tool_ok \in BOOLEAN :
          LET read == [service EXCEPT !.lines = Append(@, line)]
              response == IF service.server = "McpServer"
                            THEN McpServer_handle_request(line)
                            ELSE SearchEngine_handle_request(line, tool_ok)
          IN  service' =
                 IF line.blank THEN read
                 ELSE IF ~line.json THEN [read EXCEPT !.out = Append(@, "-32700")]
                 ELSE IF response.ok THEN [read EXCEPT !.out = Append(@, response.value)]
                 ELSE [read EXCEPT !.pc = "failed"]
    /\ UNCHANGED exceptService

\* stdin is at its end: Ok(()).
EndOfInput ==
    /\ service.pc = "serving"
    /\ service' = [service EXCEPT !.pc = "ended"]
    /\ UNCHANGED exceptService

RequestLoopNext == StartServer \/ Serve \/ EndOfInput

RequestLoopSpec == Init /\ [][RequestLoopNext]_vars

\* The lines of s that are not blank.
NonBlank(s) == SelectSeq(s, LAMBDA line : ~line.blank)

\* C39: the service's request loop writes exactly one response line for every
\* line that is not blank and keeps serving until the input ends, also after a
\* malformed line, an unknown method or an unknown tool; and a tools/call for
\* a known tool is answered by that tool.
LoopAnswersEveryLine ==
    [](/\ service.pc # "failed"
       /\ Len(service.out) = Len(NonBlank(service.lines))
       /\ \A i \in 1..Len(service.out) :
             LET line == NonBlank(service.lines)[i] IN
             (line.json /\ line.method = "tools/call" /\ line.name = "fast_search")
                => service.out[i] = "fast_search")

-----------------------------------------------------------------------------
(* The bridge's stdio loops: McpBridge::run with its handle_request        *)
(* (mcp_bridge.rs), and McpServer::run_stdio with its handle_request       *)
(* (mcp_compat.rs), which the bridge's main() runs.                        *)

exceptStdio == <<oldVars, engine, autosave, monitoring, ipc, service>>

\* The lines of the bridge's stdin; id 0 stands for a request without "id",
\* which the responses show as null.
BridgeMethods ==
    {"", "initialize", "tools/call", "notifications/initialized", "bogus/method", "fast_search"}
RequestIds == {0, 1}
BridgeLine(blank, json, method, id) == [blank |-> blank, json |-> json, method |-> method, id |-> id]
BridgeLines ==
    {BridgeLine(TRUE, FALSE, "", 0), BridgeLine(FALSE, FALSE, "", 0)}
      \cup {BridgeLine(FALSE, TRUE, method, id) : method \in BridgeMethods, id \in RequestIds}

\* A response object, and the JSON value null.
Response(id, code) == [id |-> id, code |-> code]
JsonNull == [id |-> 0, code |-> "null"]

\* McpBridge::handle_request; tool_ok: handle_tool_call answered with a result.
McpBridge_handle_request(request, tool_ok) ==
    CASE request.method = "initialize" -> Response(request.id, "result")
      [] request.method = "tools/list" -> Response(request.id, "result")
      [] request.method = "tools/call" ->
            Response(request.id, IF tool_ok THEN "result" ELSE "-32602")
      [] request.method = "notifications/initialized" -> JsonNull
      [] OTHER -> Response(request.id, "-32601")

\* McpServer::handle_request of mcp_compat.rs, with the tools main() registers.
McpServer_tools == {"fast_search", "service_status"}
compat_handle_request(request, tool_ok) ==
    IF ~request.json THEN Response(0, "ParseError")
    ELSE IF request.method \in McpServer_tools
      THEN Response(request.id, IF tool_ok THEN "result" ELSE "ExecutionError")
      ELSE Response(request.id, "MethodNotFound")

\* main() or a user of the library starts one of the two loops.
StartLoop ==
    /\ stdio.pc = "start"
    /\ \E loop \in {"McpBridge::run", "McpServer::run_stdio"} :
          stdio' = [stdio EXCEPT !.pc = "running", !.loop = loop]
    /\ UNCHANGED exceptStdio

\* One turn of the loop on a line that was read: the response, if any, is
\* written and flushed before the next read.
HandleLine ==
    /\ stdio.pc = "running"
    /\ Len(stdio.lines) < MaxLines
    /\ \E line \in BridgeLines, tool_ok \in BOOLEAN :
          LET read == [stdio EXCEPT !.lines = Append(@, line)] IN
          stdio' =
             IF stdio.loop = "McpBridge::run"
               THEN IF line.blank THEN read
                    ELSE IF ~line.json
                      THEN [read EXCEPT !.out = Append(@, Response(0, "-32700"))]
                      ELSE [read EXCEPT !.out = Append(@, McpBridge_handle_request(line, tool_ok))]
               ELSE [read EXCEPT !.out = Append(@, compat_handle_request(line, tool_ok))]
    /\ UNCHANGED exceptStdio

\* Reading stdin fails: McpBridge::run breaks, run_stdio goes on to the next line.
ReadError ==
    /\ stdio.pc = "running"
    /\ stdio' = IF stdio.loop = "McpBridge::run"
                  THEN [stdio EXCEPT !.pc = "ended", !.end = "read error"]
                  ELSE stdio
    /\ UNCHANGED exceptStdio

\* End of input: Ok(0) in McpBridge::run, the end of lines() in run_stdio.
EndOfFile ==
    /\ stdio.pc = "running"
    /\ stdio' = [stdio EXCEPT !.pc = "ended", !.end = "end of input"]
    /\ UNCHANGED exceptStdio

StdioNext == StartLoop \/ HandleLine \/ ReadError \/ EndOfFile

StdioSpec == Init /\ [][StdioNext]_vars

\* The lines that are owed a response: not blank, and not the notification.
IsNotification(line) == line.json /\ line.method = "notifications/initialized"
Answerable(s) == SelectSeq(s, LAMBDA line : ~line.blank /\ ~IsNotification(line))

\* The methods McpBridge::handle_request knows.
KnownMethods == {"initialize", "tools/list", "tools/call", "notifications/initialized"}

\* C40: the bridge's stdio loop has written, when it reads the next line,
\* exactly one response line for each line so far that is not blank and not a
\* notification, in the order of the requests; each response carries the id of
\* its request, or null and code -32700 for a line that is not JSON, and code
\* -32601 for an unknown method; and the loop ends only at the end of input or
\* on a read error.
OneResponsePerRequest ==
    [](/\ Len(stdio.out) = Len(Answerable(stdio.lines))
       /\ \A i \in 1..Len(stdio.out) :
             i <= Len(Answerable(stdio.lines)) =>
                LET line == Answerable(stdio.lines)[i]
                    response == stdio.out[i] IN
                  /\ response # JsonNull
                  /\ ~line.json => response = Response(0, "-32700")
                  /\ line.json => response.id = line.id
                  /\ (line.json /\ line.method \notin KnownMethods) => response.code = "-32601"
       /\ stdio.pc = "ended" => stdio.end \in {"end of input", "read error"})

====
